---- MODULE Spec2Model ----
(***************************************************************************)
(* A model of the protocol annotation pipeline of pyriksdagen              *)
(* (src/pyriksdagen/refine.py, src/pyriksdagen/utils.py).                  *)
(*                                                                         *)
(* The document is the TEI body: a sequence of div sections, each with a   *)
(* "type" attribute, and the content nodes one level below them, kept here *)
(* as one flat sequence in document order, each node naming its div.       *)
(* detect_mps is modelled loop iteration by loop iteration.                *)
(***************************************************************************)
EXTENDS Integers, Sequences, FiniteSets, TLC

VARIABLES
    input,             \* the nodes as they were passed in (never changes)
    divs,              \* type attribute of every body/div, in document order
    nodes,             \* the children of the divs, in document order
    metadata,          \* the metadata dict: its "chamber" entry
    mp_db,             \* member registry (reassigned to the primary chamber)
    mp_db_secondary,   \* member registry of the other chamber(s)
    minister_db,       \* minister registry
    speaker_db,        \* presiding-officer registry (reassigned, filtered)
    pc,                \* position of detect_mps
    pos,               \* index of the next item of elem_iter(root)
    current_speaker,   \* local of detect_mps
    prev,              \* local of detect_mps: index of the previous u, 0 = None
    unknowns,          \* local of detect_mps, returned
    cascade,           \* the resolver calls made for each announcement, in order
    exc,               \* the exception that left detect_mps, "" when none
    args,              \* the registries as the caller passed them (never changes)
    upc,               \* position of update_ids
    upos,              \* update_ids: index of the next item of elem_iter(root)
    ids,               \* update_ids: the local set ids, returned
    uexc,              \* the exception that left update_ids, "" when none
    intro_ids,         \* find_introductions: the argument intro_ids
    remove_missing,    \* find_introductions: the argument remove_missing
    fpc,               \* position of find_introductions
    fitems,            \* find_introductions: list(elem_iter(root)), taken at entry
    fix,               \* find_introductions: index of the next item of fitems
    fsegs,             \* find_introductions: list(elem), the children at entry to a u
    fsx,               \* find_introductions: index of the next child of fsegs
    fu,                \* find_introductions: the local u (key of the new u), 0 = None
    fexc,              \* the exception that left find_introductions, "" when none
    runs,              \* the calls made so far of the stage that is called twice
    first_pass,        \* the document as the first of the two calls left it
    skip_doctors_notes,\* detect_date: the argument skip_doctors_notes
    front,             \* the divs of text/front, each with its docDate children
    dpc,               \* position of detect_date
    dpos,              \* detect_date: index of the next item of list(elem_iter(root))
    dates,             \* detect_date: the local set dates
    number_dates,      \* detect_date: the local set number_dates
    yearless,          \* detect_date: the local set yearless
    returned,          \* detect_date: the list of dates it returned
    dexc               \* the exception that left detect_date, "" when none

vars == <<input, divs, nodes, metadata, mp_db, mp_db_secondary, minister_db,
          speaker_db, pc, pos, current_speaker, prev, unknowns, cascade, exc,
          args, upc, upos, ids, uexc, intro_ids, remove_missing, fpc, fitems, fix,
          fsegs, fsx, fu, fexc, runs, first_pass, skip_doctors_notes, front, dpc,
          dpos, dates, number_dates, yearless, returned, dexc>>

(* The variables of detect_mps, and those of the other stages. *)
mvars == <<metadata, mp_db, mp_db_secondary, minister_db, speaker_db, pc, pos,
           current_speaker, prev, unknowns, cascade, exc, args>>
uvars == <<upc, upos, ids, uexc>>
fvars == <<intro_ids, remove_missing, fpc, fitems, fix, fsegs, fsx, fu, fexc, runs,
           first_pass>>
dvars == <<skip_doctors_notes, front, dpc, dpos, dates, number_dates, yearless,
           returned, dexc>>
stages == <<uvars, fvars, dvars>>

----------------------------------------------------------------------------
(* Bounds of the model. *)

MaxNodes == 3      \* nodes of a document of Spec
MaxDivs == 3       \* divs of a document of Spec
MaxIntros == 2     \* nodes of a document of SpecCascade
MaxRun == 4        \* nodes of a document of SpecRuns
MaxIdNodes == 2    \* nodes of a document of SpecIds
MaxSegs == 2       \* children of an utterance of SpecIds
MaxText == 3       \* characters of a text of SpecSplit
MaxIntroNodes == 1 \* nodes of a document of SpecIntro
MaxIntroSegs == 2  \* children of an utterance of SpecIntro
MaxDateNodes == 2  \* nodes of a document of SpecDate
MaxStageNodes == 1 \* nodes of a document of SpecStages
MaxCertificateNodes == 3 \* nodes of a document of SpecCertificate
MaxOrderNodes == 2  \* nodes of a document of SpecOrder

----------------------------------------------------------------------------
(* Values. *)

None == "None"              \* Python's None, for current_speaker and results
NoAttr == "<no attribute>"  \* an attribute that is not set (who, type)
NoId == 0                   \* xml:id, prev or next not set
Delete == -1                \* the placeholder "delete" in prev / next
Raise == "<raise>"          \* a resolver call that raises

NoName == "<no name>"       \* intro_to_dict gave no 'name' key
NoOther == "<no other>"     \* intro_to_dict gave no 'other' key

protocol_id == "prot-1"

(* The 'other' phrases: one that contains "minister" (or "statsrad"), one  *)
(* that contains "talman", one that contains neither.                      *)
Others == {"minister", "talman", "herr"}

(* The text of a note.  str = FALSE is elem.text = None.  A text is kept   *)
(* as what intro_to_dict parses from it: the optional name and the         *)
(* optional 'other' phrase.                                                *)
(* What the four date expressions of detect_date find in a text: the most  *)
(* specific expression that matches (kind), the day and year it names, if  *)
(* dateparser makes a date of it (ok), the length class of the text and if *)
(* it names a medical certificate (sick).                                  *)
DateReading(kind, day, year, ok, len, sick) ==
    [kind |-> kind, day |-> day, year |-> year, ok |-> ok, len |-> len, sick |-> sick]
NoDate == DateReading("none", 0, 0, FALSE, "short", FALSE)

NoText == [str |-> FALSE, name |-> NoName, other |-> NoOther, date |-> NoDate]
Text(n, o) == [str |-> TRUE, name |-> n, other |-> o, date |-> NoDate]
DateText(d) == [str |-> TRUE, name |-> NoName, other |-> NoOther, date |-> d]

(* A registry is a data frame (ok, with rows) or unusable (None, or a      *)
(* frame without the expected columns).                                    *)
Frame(rows) == [ok |-> TRUE, rows |-> rows]
Malformed == [ok |-> FALSE, rows |-> {}]

----------------------------------------------------------------------------
(* utils.elem_iter: one item per child of a div, in document order: the    *)
(* pair (tag, elem) for u, note and pb, the marker None for anything else. *)

NoneMarker == [tag |-> "None", elem |-> 0]

elem_iter(ns) ==
    [i \in 1..Len(ns) |->
        IF ns[i].tag \in {"u", "note", "pb"}
        THEN [tag |-> ns[i].tag, elem |-> i]
        ELSE NoneMarker]

(* elem.getparent().attrib.get("type") *)
ParentType(i) == divs[nodes[i].div]

----------------------------------------------------------------------------
(* The resolvers of pyriksdagen.segmentation, which detect_mps calls.      *)

(* The identity of the one record of rows with this name, else None. *)
Lookup(name, rows) ==
    LET found == {r.id : r \in {x \in rows : x.name = name}}
    IN  IF Cardinality(found) = 1 THEN CHOOSE i \in found : TRUE ELSE None

(* Each gives the set of outcomes the call can have: an identity, None,    *)
(* or, on a registry it cannot read, an exception or no match.             *)
detect_mp(d, db) ==
    IF ~db.ok THEN {Raise, None} ELSE {Lookup(d.name, db.rows)}

detect_minister(d, db) ==
    IF ~db.ok THEN {Raise, None} ELSE {Lookup(d.name, db.rows)}

detect_speaker(db) ==
    IF ~db.ok THEN {Raise, None}
    ELSE LET found == {r.id : r \in db.rows}
         IN  {IF Cardinality(found) = 1 THEN CHOOSE i \in found : TRUE ELSE None}

----------------------------------------------------------------------------
(* detect_mps, lines 135-139: the chamber of the document and the          *)
(* partition of the registries.                                            *)

NoChamber == "<no chamber>"   \* "chamber" is not a key of metadata
NoYear == 0                   \* "secondary_year" is not a key of metadata
DeclaredYear == 1900          \* the year in the name of the protocol

(* utils.infer_metadata: the keys of the metadata dict that are read. *)
Metadata(chamber, year, secondary_year) ==
    [chamber |-> chamber, year |-> year, secondary_year |-> secondary_year]

Chambers == {"Forsta kammaren", "Andra kammaren", "Enkammarriksdagen"}

ChamberCode(c) ==
    CASE c = "Forsta kammaren" -> 1
      [] c = "Andra kammaren" -> 2
      [] OTHER -> 0

AllRows(db, chamber) == db.rows
SecondaryRows(db, chamber) == {r \in db.rows : r.chamber # chamber}
PrimaryRows(db, chamber) == {r \in db.rows : r.chamber = chamber}

(* detect_mps, lines 114-139: the locals, then the partition, which reads  *)
(* the "chamber" column of mp_db and of speaker_db.                        *)
Begin ==
    /\ pc = "start"
    /\ pos' = 1
    /\ current_speaker' = None
    /\ prev' = 0
    /\ unknowns' = <<>>
    /\ IF metadata.chamber = NoChamber
       THEN /\ mp_db_secondary' = Frame({})
            /\ UNCHANGED <<mp_db, speaker_db>>
            /\ pc' = "scan"
            /\ exc' = ""
       ELSE LET chamber == ChamberCode(metadata.chamber)
            IN  IF ~mp_db.ok
                THEN /\ pc' = "raised"
                     /\ exc' = "registry: mp_db"
                     /\ mp_db_secondary' = Frame({})
                     /\ UNCHANGED <<mp_db, speaker_db>>
                ELSE /\ mp_db_secondary' = Frame(SecondaryRows(mp_db, chamber))
                     /\ mp_db' = Frame(PrimaryRows(mp_db, chamber))
                     /\ IF ~speaker_db.ok
                        THEN /\ pc' = "raised"
                             /\ exc' = "registry: speaker_db"
                             /\ UNCHANGED speaker_db
                        ELSE /\ speaker_db' = Frame(PrimaryRows(speaker_db, chamber))
                             /\ pc' = "scan"
                             /\ exc' = ""
    /\ UNCHANGED <<input, args, stages, divs, nodes, metadata, minister_db, cascade>>

----------------------------------------------------------------------------
(* detect_mps, lines 141-209: one iteration of the first loop.             *)

Item == elem_iter(nodes)[pos]
InLoop == pc = "scan" /\ pos <= Len(nodes)
AnyDiv(i) == TRUE
Ordinary(i) == ParentType(i) # "commentSection"

(* line 141: "for tag, elem in elem_iter(root)" unpacks the item; the      *)
(* marker None cannot be unpacked.                                         *)
ScanNone ==
    /\ InLoop
    /\ Item = NoneMarker
    /\ pc' = "raised"
    /\ exc' = "TypeError: unpack None"
    /\ UNCHANGED <<input, args, stages, divs, nodes, metadata, mp_db, mp_db_secondary, minister_db,
                   speaker_db, pos, current_speaker, prev, unknowns, cascade>>

(* lines 149-152 *)
StampNone(speaker) == speaker
Stamp(speaker) == IF speaker # None THEN speaker ELSE "unknown"

(* lines 147-152 and 204-206: prev and next are marked for deletion, and   *)
(* who is written.                                                         *)
MarkWhoOnly(n, who) == [n EXCEPT !.who = who]
Mark(n, who) == [n EXCEPT !.prev = Delete, !.next = Delete, !.who = who]

(* lines 144-159: an utterance of an ordinary section.  The attributes are *)
(* written before the identifiers are read, so they stay written when a    *)
(* missing xml:id raises KeyError.                                         *)
ScanUtterance ==
    /\ InLoop
    /\ Item.tag = "u"
    /\ Ordinary(pos)
    /\ LET marked == [nodes EXCEPT ![pos] = Mark(@, Stamp(current_speaker))]
       IN  IF prev # 0 /\ (nodes[prev].id = NoId \/ nodes[pos].id = NoId)
           THEN /\ nodes' = marked
                /\ pc' = "raised"
                /\ exc' = "KeyError: xml:id"
                /\ UNCHANGED <<pos, prev>>
           ELSE /\ nodes' = IF prev # 0
                            THEN [marked EXCEPT ![pos].prev = nodes[prev].id,
                                                ![prev].next = nodes[pos].id]
                            ELSE marked
                /\ prev' = pos
                /\ pos' = pos + 1
                /\ UNCHANGED <<pc, exc>>
    /\ UNCHANGED <<input, args, stages, divs, metadata, mp_db, mp_db_secondary, minister_db,
                   speaker_db, current_speaker, unknowns, cascade>>

IsMinister(other) == other = "minister"
IsTalman(other) == other = "talman"

Call(strategy, result) == [strategy |-> strategy, result |-> result]

(* lines 190-195: the member registry of the document's chamber, then the  *)
(* registry of the other chamber(s) when that gave None and it has rows.   *)
MemberStepPrimaryOnly(d) ==
    {[calls |-> <<Call("mp_db", r)>>, result |-> r] : r \in detect_mp(d, mp_db)}

MemberStep(d) ==
    UNION {
        IF r = None /\ Cardinality(mp_db_secondary.rows) > 0
        THEN {[calls |-> <<Call("mp_db", r), Call("mp_db_secondary", r2)>>,
               result |-> r2] : r2 \in detect_mp(d, mp_db_secondary)}
        ELSE {[calls |-> <<Call("mp_db", r)>>, result |-> r]}
        : r \in detect_mp(d, mp_db)}

NoStep == {[calls |-> <<>>, result |-> None]}

(* lines 173-197: the resolver calls for one announcement and the value    *)
(* assigned to current_speaker (Raise: the call raised and nothing is      *)
(* assigned).                                                              *)
Resolve(d) ==
    IF d.other # NoOther
    THEN IF IsMinister(d.other)
         THEN {[calls |-> <<Call("minister_db", r)>>, result |-> r]
                  : r \in detect_minister(d, minister_db)}
         ELSE IF IsTalman(d.other)
         THEN {[calls |-> <<Call("speaker_db", r)>>, result |-> r]
                  : r \in detect_speaker(speaker_db)}
         ELSE NoStep
    ELSE IF d.name # NoName
    THEN MemberStep(d)
    ELSE NoStep

(* lines 199-200 *)
Observation(i) == [protocol |-> protocol_id, id |-> nodes[i].id]
RecordAlways(obs, speaker, i) == Append(obs, Observation(i))
Record(obs, speaker, i) ==
    IF speaker = None THEN Append(obs, Observation(i)) ELSE obs

(* lines 161-200: a speaker note of an ordinary section. *)
ScanAnnouncement ==
    /\ InLoop
    /\ Item.tag = "note"
    /\ Ordinary(pos)
    /\ nodes[pos].type = "speaker"
    /\ prev' = 0
    /\ IF ~nodes[pos].text.str
       THEN /\ pc' = "raised"
            /\ exc' = "AttributeError: text is None"
            /\ UNCHANGED <<pos, current_speaker, unknowns, cascade>>
       ELSE \E o \in Resolve(nodes[pos].text) :
              /\ cascade' = Append(cascade, [elem |-> pos, calls |-> o.calls,
                                             result |-> o.result])
              /\ IF o.result = Raise
                 THEN /\ pc' = "raised"
                      /\ exc' = "registry: resolver"
                      /\ UNCHANGED <<pos, current_speaker, unknowns>>
                 ELSE /\ current_speaker' = o.result
                      /\ unknowns' = Record(unknowns, o.result, pos)
                      /\ pos' = pos + 1
                      /\ UNCHANGED <<pc, exc>>
    /\ UNCHANGED <<input, args, stages, divs, nodes, metadata, mp_db, mp_db_secondary, minister_db,
                   speaker_db>>

ScanOtherBreaks ==
    /\ InLoop
    /\ Ordinary(pos)
    /\ \/ Item.tag = "pb"
       \/ Item.tag = "note" /\ nodes[pos].type # "speaker"
    /\ pos' = pos + 1
    /\ prev' = 0
    /\ UNCHANGED <<input, args, stages, divs, nodes, metadata, mp_db, mp_db_secondary, minister_db,
                   speaker_db, pc, current_speaker, unknowns, cascade, exc>>

(* lines 161-162: a page break, or a note that is no speaker note, of an   *)
(* ordinary section: nothing is done.                                      *)
ScanOther ==
    /\ InLoop
    /\ Ordinary(pos)
    /\ \/ Item.tag = "pb"
       \/ Item.tag = "note" /\ nodes[pos].type # "speaker"
    /\ pos' = pos + 1
    /\ UNCHANGED <<input, args, stages, divs, nodes, metadata, mp_db, mp_db_secondary, minister_db,
                   speaker_db, pc, current_speaker, prev, unknowns, cascade, exc>>

(* lines 201-209: any node of a comment section. *)
ScanComment ==
    /\ InLoop
    /\ Item # NoneMarker
    /\ ~Ordinary(pos)
    /\ nodes' = IF Item.tag = "u"
                THEN [nodes EXCEPT ![pos] = Mark(@, "unknown")]
                ELSE nodes
    /\ current_speaker' = None
    /\ prev' = 0
    /\ pos' = pos + 1
    /\ UNCHANGED <<input, args, stages, divs, metadata, mp_db, mp_db_secondary, minister_db,
                   speaker_db, pc, unknowns, cascade, exc>>

StripPrevOnly(n) ==
    IF n.tag = "u"
    THEN [n EXCEPT !.prev = IF n.prev = Delete THEN NoId ELSE n.prev]
    ELSE n

(* lines 212-217 *)
Strip(n) ==
    IF n.tag = "u"
    THEN [n EXCEPT !.prev = IF n.prev = Delete THEN NoId ELSE n.prev,
                   !.next = IF n.next = Delete THEN NoId ELSE n.next]
    ELSE n

(* lines 211-219: the second loop, and the return.  The first loop has     *)
(* reached the end, so elem_iter yields no None here.                      *)
FinishingPass ==
    /\ pc = "scan"
    /\ pos > Len(nodes)
    /\ nodes' = [i \in 1..Len(nodes) |-> Strip(nodes[i])]
    /\ pc' = "done"
    /\ UNCHANGED <<input, args, stages, divs, metadata, mp_db, mp_db_secondary, minister_db,
                   speaker_db, pos, current_speaker, prev, unknowns, cascade, exc>>

Next ==
    \/ Begin
    \/ ScanNone
    \/ ScanUtterance
    \/ ScanAnnouncement
    \/ ScanOther
    \/ ScanComment
    \/ FinishingPass

----------------------------------------------------------------------------
(* The inputs: documents and registries.                                   *)

DivTypes == {"debateSection", "commentSection"}

Shape(tag, type, text, hasId, stale) ==
    [tag |-> tag, type |-> type, text |-> text, hasId |-> hasId, stale |-> stale]

U == Shape("u", NoAttr, NoText, TRUE, FALSE)
UStale == Shape("u", NoAttr, NoText, TRUE, TRUE)    \* attributes of an earlier run
UNoId == Shape("u", NoAttr, NoText, FALSE, FALSE)
Intro(text) == Shape("note", "speaker", text, TRUE, FALSE)
Note == Shape("note", NoAttr, Text(NoName, NoOther), TRUE, FALSE)
Pb == Shape("pb", NoAttr, NoText, TRUE, FALSE)
Unrecognized == Shape("comment", NoAttr, NoText, FALSE, FALSE)

(* Node i of n, in div d.  Identifiers are unique: the position.  A stale  *)
(* utterance carries the attributes some earlier run wrote.  key names the *)
(* element object; chars is the text, character by character, and segs the *)
(* children of an utterance, for the stages that read them.                *)
MkNode(s, i, d, n) ==
    [tag |-> s.tag, div |-> d, id |-> IF s.hasId THEN i ELSE NoId,
     type |-> s.type, text |-> s.text,
     who |-> IF s.stale THEN "old" ELSE NoAttr,
     prev |-> IF s.stale THEN n ELSE NoId,
     next |-> IF s.stale THEN 1 ELSE NoId,
     key |-> i, chars |-> <<>>, segs |-> <<>>]

(* The div of every node: nondecreasing in document order. *)
DivOf(n, k) ==
    {f \in [1..n -> 1..k] : \A i \in 1..n : \A j \in 1..n : i <= j => f[i] <= f[j]}

MpRows ==
    {[name |-> "Andersson", chamber |-> 1, id |-> "i-mp1"],
     [name |-> "Berg", chamber |-> 2, id |-> "i-mp2"]}
MinisterRows == {[name |-> "Andersson", id |-> "i-min"]}
SpeakerRows == {[chamber |-> 1, id |-> "i-talman1"], [chamber |-> 2, id |-> "i-talman2"]}

(* No call of update_ids has been made. *)
IdsIdle == upc = "idle" /\ upos = 1 /\ ids = {} /\ uexc = ""

(* No call of find_introductions has been made. *)
IntroNotCalled ==
    /\ intro_ids = {}
    /\ remove_missing = TRUE
    /\ fpc = "idle"
    /\ fitems = <<>>
    /\ fix = 1
    /\ fsegs = <<>>
    /\ fsx = 1
    /\ fu = 0
    /\ fexc = ""
    /\ first_pass = <<>>

IntroIdle == IntroNotCalled /\ runs = 0

(* No call of detect_date has been made. *)
DateIdle ==
    /\ skip_doctors_notes = FALSE
    /\ front = <<>>
    /\ dpc = "idle"
    /\ dpos = 1
    /\ dates = {}
    /\ number_dates = {}
    /\ yearless = {}
    /\ returned = <<>>
    /\ dexc = ""

StagesIdle == IdsIdle /\ IntroIdle /\ DateIdle

InitDocWith(shapes, registries, maxNodes, maxDivs) ==
    /\ \E n \in 0..maxNodes : \E k \in 1..maxDivs :
         \E ss \in [1..n -> shapes] : \E dv \in DivOf(n, k) :
           /\ divs \in [1..k -> DivTypes]
           /\ nodes = [i \in 1..n |-> MkNode(ss[i], i, dv[i], n)]
           /\ input = nodes
    /\ \E r \in registries :
         /\ metadata = Metadata(r.chamber, DeclaredYear, NoYear)
         /\ mp_db = r.mp_db
         /\ minister_db = r.minister_db
         /\ speaker_db = r.speaker_db
         /\ args = [mp_db |-> r.mp_db, speaker_db |-> r.speaker_db]
    /\ mp_db_secondary = Frame({})
    /\ pc = "start"
    /\ pos = 1
    /\ current_speaker = None
    /\ prev = 0
    /\ unknowns = <<>>
    /\ cascade = <<>>
    /\ exc = ""

InitWith(shapes, registries, maxNodes, maxDivs) ==
    InitDocWith(shapes, registries, maxNodes, maxDivs) /\ StagesIdle

Registry(chamber, mp, minister, speaker) ==
    [chamber |-> chamber, mp_db |-> mp, minister_db |-> minister, speaker_db |-> speaker]

(* Documents of every shape, registries of a first-chamber document. *)
Init ==
    InitWith(
        {U, UStale, Intro(Text("Andersson", NoOther)),
         Intro(Text(NoName, NoOther)), Pb, Unrecognized},
        {Registry("Forsta kammaren", Frame(MpRows), Frame(MinisterRows), Frame(SpeakerRows))},
        MaxNodes, MaxDivs)

Spec == Init /\ [][Next]_vars

(* Short documents with every kind of announcement, registries of every    *)
(* chamber, with and without the member looked for, usable and not.        *)
Registries ==
    {Registry(c, Frame(MpRows), Frame(MinisterRows), Frame(SpeakerRows))
        : c \in Chambers \cup {NoChamber}}
    \cup
    {Registry("Forsta kammaren", Frame({r \in MpRows : r.name = "Berg"}),
              Frame({}), Frame({})),
     Registry("Andra kammaren", Frame(MpRows), Malformed, Frame(SpeakerRows)),
     Registry(NoChamber, Malformed, Frame(MinisterRows), Frame(SpeakerRows)),
     Registry(NoChamber, Frame(MpRows), Frame(MinisterRows), Malformed),
     Registry("Forsta kammaren", Malformed, Frame(MinisterRows), Frame(SpeakerRows)),
     Registry("Andra kammaren", Frame(MpRows), Frame(MinisterRows), Malformed)}

InitCascade ==
    InitWith(
        {U, UNoId, Pb, Note, Unrecognized, Intro(NoText),
         Intro(Text("Berg", NoOther))}
        \cup {Intro(Text(n, o)) : n \in {"Andersson", NoName},
                                  o \in Others \cup {NoOther}},
        Registries, MaxIntros, 2)

SpecCascade == InitCascade /\ [][Next]_vars

(* Longer documents of utterances, announcements, page breaks and notes of *)
(* other subtypes, in one or two sections.                                 *)
NoteOf(type) == Shape("note", type, Text(NoName, NoOther), TRUE, FALSE)

InitRuns ==
    InitWith(
        {U, Intro(Text("Andersson", NoOther)), Pb, Note, NoteOf("date"), Unrecognized},
        {Registry("Forsta kammaren", Frame(MpRows), Frame(MinisterRows), Frame(SpeakerRows))},
        MaxRun, 2)

SpecRuns == InitRuns /\ [][Next]_vars

----------------------------------------------------------------------------
(* detect_mps called a second time on the document the first call          *)
(* returned, with the registries the caller passed to the first: the       *)
(* frames filtered by the first call were its locals.                      *)
MpsAgain ==
    /\ pc = "done"
    /\ runs = 1
    /\ first_pass' = nodes
    /\ runs' = 2
    /\ mp_db' = args.mp_db
    /\ speaker_db' = args.speaker_db
    /\ mp_db_secondary' = Frame({})
    /\ pc' = "start"
    /\ pos' = 1
    /\ current_speaker' = None
    /\ prev' = 0
    /\ unknowns' = <<>>
    /\ cascade' = <<>>
    /\ UNCHANGED <<input, args, divs, nodes, metadata, minister_db, exc, uvars,
                   intro_ids, remove_missing, fpc, fitems, fix, fsegs, fsx, fu,
                   fexc, dvars>>

NextMpsTwice == \/ Next \/ MpsAgain

(* Documents with utterances that carry the attributes of an earlier run,  *)
(* announcements, page breaks and other nodes, in one or two sections.     *)
InitMpsTwice ==
    /\ InitDocWith(
          {U, UStale, Intro(Text("Andersson", NoOther)),
           Intro(Text(NoName, NoOther)), Pb, Unrecognized},
          {Registry("Forsta kammaren", Frame(MpRows), Frame(MinisterRows),
                    Frame(SpeakerRows))},
          MaxNodes, 2)
    /\ IdsIdle
    /\ IntroNotCalled
    /\ runs = 1
    /\ DateIdle

SpecMpsTwice == InitMpsTwice /\ [][NextMpsTwice]_vars

----------------------------------------------------------------------------
(* utils.get_formatted_uuid, lines 235-253: uuid.uuid4() when no seed is   *)
(* given, else the UUID made of the md5 digest of the seed.                *)

SeededUuid == 100           \* the identifier made of md5("prot-1")
OtherSeededUuid == 99       \* the identifier made of any other digest
RandomUuids == {101, 102}   \* identifiers uuid4 can give

Md5Uuid(seed) == IF seed = protocol_id THEN SeededUuid ELSE OtherSeededUuid

(* The identifiers a call can return. *)
get_formatted_uuid(seed) == IF seed = None THEN RandomUuids ELSE {Md5Uuid(seed)}

----------------------------------------------------------------------------
(* refine.update_ids, lines 478-509.                                       *)

(* The names update_ids can read: the module's globals (lines 1-22, 96,    *)
(* 222, 341, 478), its parameters and its locals.  xml_ns is a local of    *)
(* detect_mps (line 125).                                                  *)
GlobalsOfRefine ==
    {"etree", "re", "element_hash", "dateparser", "pd", "elem_iter",
     "infer_metadata", "parse_date", "XML_NS", "TEI_NS", "get_formatted_uuid",
     "load_expressions", "filter_db", "load_patterns", "load_metadata",
     "detect_mp", "detect_minister", "detect_speaker", "expression_dicts",
     "detect_introduction", "intro_to_dict", "multiple_replace", "datetime",
     "get_logger", "LOGGER", "redetect_protocol", "detect_mps",
     "find_introductions", "detect_date", "update_ids"}

NamesOfUpdateIds ==
    GlobalsOfRefine
    \cup {"root", "protocol_id", "ids", "xml_id", "tag", "elem", "subelem", "x"}

NameResolves(name) == name \in NamesOfUpdateIds

(* attrib.get(xml:id, get_formatted_uuid()): the identifier the element    *)
(* has, else the one the call made. *)
KeepOrNew(id, new) == IF id # NoId THEN id ELSE new

(* lines 494-507: the node after the assignments, for every outcome of the *)
(* get_formatted_uuid() calls.  Only an utterance has children.            *)
Identified(n) ==
    {[n EXCEPT !.id = KeepOrNew(@, x),
               !.segs = [j \in 1..Len(n.segs) |->
                            [n.segs[j] EXCEPT !.id = KeepOrNew(@, f[j])]]]
        : x \in get_formatted_uuid(None),
          f \in [1..Len(n.segs) -> get_formatted_uuid(None)]}

(* The identifiers lines 498, 502 and 507 add to ids for a node. *)
IdsOf(n) == {n.id} \cup {n.segs[j].id : j \in 1..Len(n.segs)}

(* lines 490-491 *)
UpdateIdsBegin ==
    /\ upc = "start"
    /\ upc' = "scan"
    /\ upos' = 1
    /\ ids' = {}
    /\ uexc' = ""
    /\ UNCHANGED <<input, divs, nodes, mvars, fvars, dvars>>

(* line 492: "for tag, elem in elem_iter(root)" cannot unpack the marker   *)
(* None.                                                                   *)
UpdateIdsNone ==
    /\ upc = "scan" /\ upos <= Len(nodes)
    /\ elem_iter(nodes)[upos] = NoneMarker
    /\ upc' = "raised"
    /\ uexc' = "TypeError: unpack None"
    /\ UNCHANGED <<input, divs, nodes, mvars, fvars, dvars, upos, ids>>

(* lines 493-507: an utterance, a note or a page break.  The key of every  *)
(* attrib.get is f'{xml_ns}id', and it is evaluated before the call.       *)
UpdateIdsNode ==
    /\ upc = "scan" /\ upos <= Len(nodes)
    /\ elem_iter(nodes)[upos] # NoneMarker
    /\ IF ~NameResolves("xml_ns")
       THEN /\ upc' = "raised"
            /\ uexc' = "NameError: xml_ns"
            /\ UNCHANGED <<nodes, upos, ids>>
       ELSE \E n \in Identified(nodes[upos]) :
              /\ nodes' = [nodes EXCEPT ![upos] = n]
              /\ ids' = ids \cup IdsOf(n)
              /\ upos' = upos + 1
              /\ UNCHANGED <<upc, uexc>>
    /\ UNCHANGED <<input, divs, mvars, fvars, dvars>>

(* line 509 *)
UpdateIdsReturn ==
    /\ upc = "scan" /\ upos > Len(nodes)
    /\ upc' = "done"
    /\ UNCHANGED <<input, divs, nodes, mvars, fvars, dvars, upos, ids, uexc>>

NextIds ==
    \/ UpdateIdsBegin
    \/ UpdateIdsNone
    \/ UpdateIdsNode
    \/ UpdateIdsReturn

(* No call of detect_mps has been made. *)
MpsIdleWith(md) ==
    /\ metadata = md
    /\ mp_db = Frame(MpRows)
    /\ mp_db_secondary = Frame({})
    /\ minister_db = Frame(MinisterRows)
    /\ speaker_db = Frame(SpeakerRows)
    /\ args = [mp_db |-> mp_db, speaker_db |-> speaker_db]
    /\ pc = "idle"
    /\ pos = 1
    /\ current_speaker = None
    /\ prev = 0
    /\ unknowns = <<>>
    /\ cascade = <<>>
    /\ exc = ""

MpsIdle == MpsIdleWith(Metadata("Forsta kammaren", DeclaredYear, NoYear))

(* A node with or without an identifier; segIds tells which children of an *)
(* utterance have one.                                                     *)
IdShape(tag, hasId, segIds) == [tag |-> tag, hasId |-> hasId, segIds |-> segIds]

SegKey(i, j) == 10 * i + j

MkSeg(i, j, hasId, text, chars) ==
    [key |-> SegKey(i, j), id |-> IF hasId THEN SegKey(i, j) ELSE NoId,
     text |-> text, chars |-> chars]

MkIdNode(s, i) ==
    [tag |-> s.tag, div |-> 1, id |-> IF s.hasId THEN i ELSE NoId,
     type |-> NoAttr, text |-> NoText, who |-> NoAttr, prev |-> NoId, next |-> NoId,
     key |-> i, chars |-> <<>>,
     segs |-> [j \in 1..Len(s.segIds) |-> MkSeg(i, j, s.segIds[j], NoText, <<>>)]]

SegIdChoices == UNION {[1..m -> BOOLEAN] : m \in 0..MaxSegs}

IdShapes ==
    {IdShape("u", h, f) : h \in BOOLEAN, f \in SegIdChoices}
    \cup {IdShape(t, h, <<>>) : t \in {"note", "pb"}, h \in BOOLEAN}
    \cup {IdShape("comment", FALSE, <<>>)}

InitIds ==
    /\ \E n \in 0..MaxIdNodes : \E ss \in [1..n -> IdShapes] :
         /\ nodes = [i \in 1..n |-> MkIdNode(ss[i], i)]
         /\ input = nodes
    /\ divs = <<"debateSection">>
    /\ MpsIdle
    /\ upc = "start" /\ upos = 1 /\ ids = {} /\ uexc = ""
    /\ IntroIdle
    /\ DateIdle

SpecIds == InitIds /\ [][NextIds]_vars

----------------------------------------------------------------------------
(* Strings, as find_introductions uses them: a text is the sequence of its *)
(* characters; offsets count from 0 as in Python.                          *)

InText(c, t) == \E i \in 1..Len(t) : t[i] = c
Last(t) == t[Len(t)]

(* m occurs in t at offset o. *)
OccursAt(t, m, o) == o + Len(m) <= Len(t) /\ \A j \in 1..Len(m) : t[o + j] = m[j]

(* t.index(m): the offset of the first occurrence. *)
IndexOf(t, m) ==
    CHOOSE o \in 0..Len(t) : OccursAt(t, m, o) /\ \A q \in 0..(o - 1) : ~OccursAt(t, m, q)

(* t[: ix + 1] and t[ix + 1 :] *)
UpToWrong(t, ix) == IF ix >= Len(t) THEN t ELSE SubSeq(t, 1, ix)
UpTo(t, ix) == IF ix + 1 >= Len(t) THEN t ELSE SubSeq(t, 1, ix + 1)
After(t, ix) == IF ix + 1 >= Len(t) THEN <<>> ELSE SubSeq(t, ix + 2, Len(t))

(* t.strip() *)
StripText(t) ==
    LET solid == {i \in 1..Len(t) : t[i] # " "}
    IN  IF solid = {} THEN <<>>
        ELSE SubSeq(t, CHOOSE a \in solid : \A b \in solid : a <= b,
                       CHOOSE a \in solid : \A b \in solid : a >= b)

Substrings(t) ==
    {SubSeq(t, p[1], p[2]) : p \in {q \in (1..Len(t)) \X (1..Len(t)) : q[1] <= q[2]}}

----------------------------------------------------------------------------
(* pyriksdagen.segmentation.detect_introduction, which find_introductions  *)
(* calls: the element is an introduction when its xml:id is one of the     *)
(* confirmed intro_ids, and "txt" is then the span of its text that the    *)
(* introduction template matched, any non-empty part of the text.  "who"   *)
(* is left open by the segmentation.                                       *)

NoIntroduction == [txt |-> <<>>, who |-> None]
IntroWho == {None, "i-mp1"}

detect_introduction(elem, confirmed) ==
    IF elem.id # NoId /\ elem.id \in confirmed /\ elem.chars # <<>>
    THEN {[txt |-> m, who |-> w] : m \in Substrings(elem.chars), w \in IntroWho}
    ELSE {NoIntroduction}

----------------------------------------------------------------------------
(* refine.find_introductions, lines 222-338.                               *)

NoIx == -1                  \* ix = None

(* "s in elem" for an lxml element and a str: an element contains only     *)
(* elements.                                                               *)
ElementContains(elem, c) == FALSE

(* lines 268-276: the offset at which the text of a seg is cut. *)
BoundaryOfSeg(seg, matched) ==
    IF InText(":", matched)
    THEN IndexOf(matched, <<":">>) + IndexOf(seg.chars, matched)
    ELSE IF Last(seg.chars) # ":" /\ ElementContains(seg, ":")
    THEN IndexOf(seg.chars, <<":">>)
    ELSE IF Last(matched) # ":" /\ ElementContains(seg, ":")
    THEN Len(matched) + IndexOf(seg.chars, matched)
    ELSE NoIx

(* lines 304-312: the offset at which the text of a note is cut. *)
BoundaryOfNote(elem, matched) ==
    IF InText(":", matched)
    THEN IndexOf(matched, <<":">>) + IndexOf(elem.chars, matched)
    ELSE IF Last(elem.chars) # ":" /\ ElementContains(elem, ":")
    THEN IndexOf(elem.chars, <<":">>)
    ELSE IF Last(matched) # ":" /\ InText(":", elem.chars)
    THEN Len(matched) + IndexOf(elem.chars, matched)
    ELSE NoIx

(* The position of the node that is element k, and a key no element has. *)
PosOfKey(k) == CHOOSE i \in 1..Len(nodes) : nodes[i].key = k

Keys(doc) ==
    {doc[i].key : i \in 1..Len(doc)}
    \cup UNION {{doc[i].segs[j].key : j \in 1..Len(doc[i].segs)} : i \in 1..Len(doc)}

(* The identifiers the nodes and the children of the utterances of doc     *)
(* carry, with the key of the element that carries each.                   *)
Carried(doc) ==
    {<<doc[i].key, doc[i].id>> : i \in {j \in 1..Len(doc) : doc[j].tag \in {"u", "note", "pb"}}}
    \cup UNION {{<<doc[i].segs[j].key, doc[i].segs[j].id>> : j \in 1..Len(doc[i].segs)}
                   : i \in {j \in 1..Len(doc) : doc[j].tag = "u"}}

NewKey == 1 + CHOOSE k \in Keys(nodes) : \A l \in Keys(nodes) : l <= k

WithoutSeg(segs, k) == SelectSeq(segs, LAMBDA c : c.key # k)
InsertBefore(doc, p, new) == SubSeq(doc, 1, p - 1) \o new \o SubSeq(doc, p, Len(doc))
InsertAfter(doc, p, new) == SubSeq(doc, 1, p) \o new \o SubSeq(doc, p + 1, Len(doc))

(* etree.Element(u) with its who (lines 259-263, 318-322), holding         *)
(* children; etree.SubElement(u, seg) with its text (lines 280-283,        *)
(* 327-331).                                                               *)
NewU(key, div, who, children) ==
    [tag |-> "u", div |-> div, id |-> NoId, type |-> NoAttr, text |-> NoText,
     who |-> IF who # None THEN who ELSE "unknown", prev |-> NoId, next |-> NoId,
     key |-> key, chars |-> <<>>, segs |-> children]

NewSeg(key, rest) ==
    [key |-> key, id |-> NoId, text |-> Text(NoName, NoOther), chars |-> rest]

SegAsUntypedNote(seg, div, chars) ==
    [tag |-> "note", div |-> div, id |-> seg.id, type |-> NoAttr, text |-> seg.text,
     who |-> NoAttr, prev |-> NoId, next |-> NoId, key |-> seg.key,
     chars |-> chars, segs |-> <<>>]

SegAsNoteWithoutId(seg, div, chars) ==
    [tag |-> "note", div |-> div, id |-> NoId, type |-> "speaker", text |-> seg.text,
     who |-> NoAttr, prev |-> NoId, next |-> NoId, key |-> seg.key,
     chars |-> chars, segs |-> <<>>]

(* lines 251-253: the seg becomes a note of type speaker. *)
SegAsNote(seg, div, chars) ==
    [tag |-> "note", div |-> div, id |-> seg.id, type |-> "speaker", text |-> seg.text,
     who |-> NoAttr, prev |-> NoId, next |-> NoId, key |-> seg.key,
     chars |-> chars, segs |-> <<>>]

(* list(elem_iter(root)): the items with the element named by its key. *)
Snapshot(doc) ==
    [i \in 1..Len(doc) |->
        IF elem_iter(doc)[i] = NoneMarker THEN NoneMarker
        ELSE [tag |-> doc[i].tag, elem |-> doc[i].key]]

(* lines 234-238: the items are listed before the first is processed. *)
IntroBegin ==
    /\ fpc = "start"
    /\ fpc' = "scan"
    /\ fitems' = Snapshot(nodes)
    /\ fix' = 1
    /\ fsegs' = <<>>
    /\ fsx' = 1
    /\ fu' = 0
    /\ fexc' = ""
    /\ UNCHANGED <<input, divs, nodes, mvars, uvars, dvars, intro_ids, remove_missing, runs,
                   first_pass>>

IntroItem == fitems[fix]
IntroInLoop == fpc = "scan" /\ fix <= Len(fitems)

(* line 239: "tag, elem = elem_tuple" cannot unpack the marker None. *)
IntroNone ==
    /\ IntroInLoop
    /\ IntroItem = NoneMarker
    /\ fpc' = "raised"
    /\ fexc' = "TypeError: unpack None"
    /\ UNCHANGED <<input, divs, nodes, mvars, uvars, dvars, intro_ids, remove_missing, fitems,
                   fix, fsegs, fsx, fu, runs, first_pass>>

(* lines 240-244: an utterance; its children are listed before the first   *)
(* is processed.                                                           *)
IntroUtterance ==
    /\ IntroInLoop
    /\ IntroItem.tag = "u"
    /\ fpc' = "segs"
    /\ fsegs' = [j \in 1..Len(nodes[PosOfKey(IntroItem.elem)].segs) |->
                    nodes[PosOfKey(IntroItem.elem)].segs[j].key]
    /\ fsx' = 1
    /\ fu' = 0
    /\ UNCHANGED <<input, divs, nodes, mvars, uvars, dvars, intro_ids, remove_missing, fitems,
                   fix, fexc, runs, first_pass>>

(* lines 245-287: one child of the utterance.  A child whose text is None  *)
(* is left where it is; an introduction becomes a note after the utterance *)
(* (after the last new u), followed by a new u that takes the text after   *)
(* the boundary; any other child moves into the last new u.                *)
IntroSeg ==
    /\ fpc = "segs" /\ fsx <= Len(fsegs)
    /\ LET e == PosOfKey(IntroItem.elem)
           seg == CHOOSE c \in {nodes[e].segs[j] : j \in 1..Len(nodes[e].segs)} :
                      c.key = fsegs[fsx]
           left == [nodes EXCEPT ![e].segs = WithoutSeg(@, seg.key)]
       IN  IF ~seg.text.str
           THEN UNCHANGED <<nodes, fu>>
           ELSE \E introduction \in detect_introduction(seg, intro_ids) :
                  IF introduction # NoIntroduction
                  THEN LET ix == BoundaryOfSeg(seg, introduction.txt)
                           kept == IF ix # NoIx THEN UpTo(seg.chars, ix) ELSE seg.chars
                           children == IF ix # NoIx
                                       THEN <<NewSeg(NewKey + 1, After(seg.chars, ix))>>
                                       ELSE <<>>
                           anchor == IF fu # 0 THEN PosOfKey(fu) ELSE e
                       IN  /\ nodes' = InsertAfter(left, anchor,
                                         <<SegAsNote(seg, nodes[e].div, kept),
                                           NewU(NewKey, nodes[e].div, introduction.who,
                                                children)>>)
                           /\ fu' = NewKey
                  ELSE IF fu # 0
                  THEN /\ nodes' = [left EXCEPT ![PosOfKey(fu)].segs = Append(@, seg)]
                       /\ UNCHANGED fu
                  ELSE UNCHANGED <<nodes, fu>>
    /\ fsx' = fsx + 1
    /\ UNCHANGED <<input, divs, mvars, uvars, dvars, intro_ids, remove_missing, fpc, fitems,
                   fix, fsegs, fexc, runs, first_pass>>

(* line 245: the children are exhausted. *)
IntroUtteranceEnd ==
    /\ fpc = "segs" /\ fsx > Len(fsegs)
    /\ fpc' = "scan"
    /\ fix' = fix + 1
    /\ UNCHANGED <<input, divs, nodes, mvars, uvars, dvars, intro_ids, remove_missing, fitems,
                   fsegs, fsx, fu, fexc, runs, first_pass>>

(* lines 297-333: the note is an introduction.  One that is of type        *)
(* speaker already is left alone; another gets the type and, when text     *)
(* other than blanks follows the boundary, is cut there.                   *)
IntroducedNote(doc, e, introduction) ==
    IF doc[e].type = "speaker" THEN doc
    ELSE LET typed == [doc EXCEPT ![e].type = "speaker"]
             ix == BoundaryOfNote(doc[e], introduction.txt)
         IN  IF ix # NoIx /\ Len(StripText(After(doc[e].chars, ix))) > 0
             THEN InsertAfter([typed EXCEPT ![e].chars = UpTo(doc[e].chars, ix)], e,
                      <<NewU(NewKey, doc[e].div, introduction.who,
                             <<NewSeg(NewKey + 1, After(doc[e].chars, ix))>>)>>)
             ELSE typed

(* lines 289-336: a note. *)
IntroNote ==
    /\ IntroInLoop
    /\ IntroItem.tag = "note"
    /\ LET e == PosOfKey(IntroItem.elem)
       IN  IF ~nodes[e].text.str
           THEN UNCHANGED nodes
           ELSE \E introduction \in detect_introduction(nodes[e], intro_ids) :
                  IF introduction # NoIntroduction
                  THEN nodes' = IntroducedNote(nodes, e, introduction)
                  ELSE IF nodes[e].type = "speaker" /\ remove_missing
                  THEN nodes' = [nodes EXCEPT ![e].type = NoAttr]
                  ELSE UNCHANGED nodes
    /\ fix' = fix + 1
    /\ UNCHANGED <<input, divs, mvars, uvars, dvars, intro_ids, remove_missing, fpc, fitems,
                   fsegs, fsx, fu, fexc, runs, first_pass>>

(* lines 240, 289: a page break takes neither branch. *)
IntroPb ==
    /\ IntroInLoop
    /\ IntroItem.tag = "pb"
    /\ fix' = fix + 1
    /\ UNCHANGED <<input, divs, nodes, mvars, uvars, dvars, intro_ids, remove_missing, fpc,
                   fitems, fsegs, fsx, fu, fexc, runs, first_pass>>

(* line 338 *)
IntroReturn ==
    /\ fpc = "scan" /\ fix > Len(fitems)
    /\ fpc' = "done"
    /\ UNCHANGED <<input, divs, nodes, mvars, uvars, dvars, intro_ids, remove_missing, fitems,
                   fix, fsegs, fsx, fu, fexc, runs, first_pass>>

(* The caller calls find_introductions once more, on the document the      *)
(* first call returned and with the same arguments.                        *)
IntroAgain ==
    /\ fpc = "done" /\ runs = 1
    /\ first_pass' = nodes
    /\ runs' = 2
    /\ fpc' = "start"
    /\ UNCHANGED <<input, divs, nodes, mvars, uvars, dvars, intro_ids, remove_missing, fitems,
                   fix, fsegs, fsx, fu, fexc>>

NextIntro ==
    \/ IntroBegin
    \/ IntroNone
    \/ IntroUtterance
    \/ IntroSeg
    \/ IntroUtteranceEnd
    \/ IntroNote
    \/ IntroPb
    \/ IntroReturn
    \/ IntroAgain

----------------------------------------------------------------------------
(* The inputs of find_introductions.                                       *)

Chars == {"a", ":", " "}
TextsUpTo(n) == UNION {[1..m -> Chars] : m \in 1..n}

(* The text of an element: a str, or None. *)
Str(t) == [str |-> TRUE, chars |-> t]
NoStr == [str |-> FALSE, chars |-> <<>>]

(* An element has no xml:id ("none"), one that is not in intro_ids         *)
(* ("plain") or one that is ("confirmed").                                 *)
IdStates == {"none", "plain", "confirmed"}

SegShape(tx, idstate) == [tx |-> tx, idstate |-> idstate]
IntroShape(tag, type, tx, idstate, children) ==
    [tag |-> tag, type |-> type, tx |-> tx, idstate |-> idstate, children |-> children]

NoteShape(type, tx, idstate) == IntroShape("note", type, tx, idstate, <<>>)
UShape(children) == IntroShape("u", NoAttr, NoStr, "plain", children)
PbShape == IntroShape("pb", NoAttr, NoStr, "plain", <<>>)
CommentShape == IntroShape("comment", NoAttr, NoStr, "none", <<>>)

ParsedText(tx) == IF tx.str THEN Text(NoName, NoOther) ELSE NoText

MkIntroNode(s, i) ==
    [tag |-> s.tag, div |-> 1, id |-> IF s.idstate # "none" THEN i ELSE NoId,
     type |-> s.type, text |-> ParsedText(s.tx), who |-> NoAttr,
     prev |-> NoId, next |-> NoId, key |-> i, chars |-> s.tx.chars,
     segs |-> [j \in 1..Len(s.children) |->
                  MkSeg(i, j, s.children[j].idstate # "none",
                        ParsedText(s.children[j].tx), s.children[j].tx.chars)]]

(* The identifiers of the elements that are confirmed introductions. *)
ConfirmedIds(ss) ==
    {i \in 1..Len(ss) : ss[i].idstate = "confirmed" /\ ss[i].tag = "note"}
    \cup UNION {{SegKey(i, j) : j \in {k \in 1..Len(ss[i].children) :
                                         ss[i].children[k].idstate = "confirmed"}}
                  : i \in 1..Len(ss)}

(* The first call of find_introductions on a document of these shapes. *)
InitIntroWith(shapes, maxNodes) ==
    /\ \E n \in 0..maxNodes : \E ss \in [1..n -> shapes] :
         /\ nodes = [i \in 1..n |-> MkIntroNode(ss[i], i)]
         /\ input = nodes
         /\ intro_ids = ConfirmedIds(ss)
    /\ remove_missing \in BOOLEAN
    /\ divs = <<"debateSection">>
    /\ MpsIdle
    /\ IdsIdle
    /\ DateIdle
    /\ fpc = "start"
    /\ fitems = <<>>
    /\ fix = 1
    /\ fsegs = <<>>
    /\ fsx = 1
    /\ fu = 0
    /\ fexc = ""
    /\ runs = 1
    /\ first_pass = <<>>

(* One element, a note or the child of an utterance, with every text of up *)
(* to MaxText characters.                                                  *)
SplitTexts == {Str(t) : t \in TextsUpTo(MaxText)} \cup {NoStr}

SplitShapes ==
    {NoteShape(ty, tx, st) : ty \in {NoAttr, "speaker"}, tx \in SplitTexts,
                             st \in {"plain", "confirmed"}}
    \cup {UShape(<<SegShape(tx, st)>>) : tx \in SplitTexts, st \in {"plain", "confirmed"}}
    \cup {PbShape, CommentShape}

InitSplit == InitIntroWith(SplitShapes, 1)

SpecSplit == InitSplit /\ [][NextIntro]_vars

(* Utterances of several children and notes, with few texts. *)
SegKinds ==
    {SegShape(Str(<<":", "a">>), "confirmed"), SegShape(Str(<<"a">>), "confirmed"),
     SegShape(Str(<<"a">>), "plain"), SegShape(NoStr, "plain")}

(* The children of an utterance: an introduction that is cut and a child   *)
(* that is none; one child alone is of any kind.                           *)
ChildKinds == {SegShape(Str(<<":", "a">>), "confirmed"), SegShape(Str(<<"a">>), "plain")}

ChildrenUpTo(n) ==
    UNION {[1..m -> ChildKinds] : m \in 0..n} \cup {<<k>> : k \in SegKinds}

StructShapes ==
    {NoteShape(ty, k.tx, k.idstate) : ty \in {NoAttr, "speaker"}, k \in SegKinds}
    \cup {UShape(c) : c \in ChildrenUpTo(MaxIntroSegs)}
    \cup {PbShape, CommentShape}

InitIntro == InitIntroWith(StructShapes, MaxIntroNodes)

SpecIntro == InitIntro /\ [][NextIntro]_vars

----------------------------------------------------------------------------
(* refine.detect_date, lines 341-475.                                      *)

(* A date: dateparser's datetime, as year and day of the year. *)
Date(year, day) == [year |-> year, day |-> day]
FirstOfJanuary == 1

AnyYear == {DeclaredYear, 1901, 1950}

(* line 361 *)
ProtocolYears ==
    {metadata.year,
     IF metadata.secondary_year # NoYear THEN metadata.secondary_year ELSE metadata.year}

(* lines 367-384: with skip_doctors_notes, the siblings before node i are  *)
(* read backwards, up to and with the first of type title, for the         *)
(* certificate phrase.                                                     *)
SiblingsBefore(i) == {j \in 1..(i - 1) : nodes[j].div = nodes[i].div}

IsSjukbetygPastTitle(i) ==
    /\ skip_doctors_notes
    /\ \E j \in SiblingsBefore(i) : nodes[j].text.str /\ nodes[j].text.date.sick

IsSjukbetyg(i) ==
    /\ skip_doctors_notes
    /\ \E j \in SiblingsBefore(i) :
          /\ nodes[j].text.str /\ nodes[j].text.date.sick
          /\ \A k \in SiblingsBefore(i) : k > j => nodes[k].type # "title"

(* line 388: a note with a text of less than 50 rendered characters. *)
ShortNote(i) ==
    /\ nodes[i].tag = "note"
    /\ nodes[i].text.str
    /\ nodes[i].text.date.len # "long"

(* lines 390-391, 400-401, 419-420, 426-427, 433-434: the type of the note *)
(* after the iteration.                                                    *)
Tentative(type) == IF type = "date" THEN "REMOVE" ELSE type
AsDate(type) == IF type # "title" THEN "date" ELSE type
SettledKeeps(type) == type
Settled(type) == IF type = "REMOVE" THEN NoAttr ELSE type

TypeAfter(i) ==
    LET d == nodes[i].text.date
        t == Tentative(nodes[i].type)
    IN  Settled(
          IF d.kind = "weekday_date_year" THEN AsDate(t)
          ELSE IF d.kind = "weekday_and_date" /\ ~IsSjukbetyg(i) THEN AsDate(t)
          ELSE IF d.kind = "den_and_date" /\ ~IsSjukbetyg(i) /\ d.len = "short"
          THEN AsDate(t)
          ELSE t)

(* lines 354-362 *)
DateBegin ==
    /\ dpc = "start"
    /\ dpc' = "scan"
    /\ dpos' = 1
    /\ dates' = {}
    /\ number_dates' = {}
    /\ yearless' = {}
    /\ dexc' = ""
    /\ UNCHANGED <<input, divs, nodes, mvars, uvars, fvars, skip_doctors_notes, front,
                   returned>>

DateInLoop == dpc = "scan" /\ dpos <= Len(nodes)

(* line 387: "tag, elem = elem_tuple" cannot unpack the marker None. *)
DateNone ==
    /\ DateInLoop
    /\ elem_iter(nodes)[dpos] = NoneMarker
    /\ dpc' = "raised"
    /\ dexc' = "TypeError: unpack None"
    /\ UNCHANGED <<input, divs, nodes, mvars, uvars, fvars, skip_doctors_notes, front,
                   dpos, dates, number_dates, yearless, returned>>

(* lines 388-434: a short note. *)
DateNote ==
    /\ DateInLoop
    /\ elem_iter(nodes)[dpos] # NoneMarker
    /\ ShortNote(dpos)
    /\ LET d == nodes[dpos].text.date
           usable == d.ok /\ d.year \in ProtocolYears
       IN  /\ nodes' = [nodes EXCEPT ![dpos].type = TypeAfter(dpos)]
           /\ number_dates' =
                 IF d.kind = "weekday_date_year" /\ usable /\ ~IsSjukbetyg(dpos)
                 THEN number_dates \cup {Date(d.year, d.day)} ELSE number_dates
           /\ dates' =
                 IF d.kind = "date_and_year" /\ usable /\ ~IsSjukbetyg(dpos)
                 THEN dates \cup {Date(d.year, d.day)} ELSE dates
           /\ yearless' =
                 IF /\ ~IsSjukbetyg(dpos)
                    /\ \/ d.kind = "weekday_and_date"
                       \/ d.kind = "den_and_date" /\ d.len = "short"
                 THEN yearless \cup {[day |-> d.day, ok |-> d.ok]} ELSE yearless
    /\ dpos' = dpos + 1
    /\ UNCHANGED <<input, divs, mvars, uvars, fvars, skip_doctors_notes, front, dpc,
                   returned, dexc>>

(* line 388: anything else is passed over. *)
DateOther ==
    /\ DateInLoop
    /\ elem_iter(nodes)[dpos] # NoneMarker
    /\ ~ShortNote(dpos)
    /\ dpos' = dpos + 1
    /\ UNCHANGED <<input, divs, nodes, mvars, uvars, fvars, skip_doctors_notes, front,
                   dpc, dates, number_dates, yearless, returned, dexc>>

(* sorted(dates), line 449 *)
Earlier(a, b) == a.year < b.year \/ (a.year = b.year /\ a.day < b.day)

RECURSIVE Sorted(_)
Sorted(ds) ==
    IF ds = {} THEN <<>>
    ELSE LET first == CHOOSE a \in ds : \A b \in ds \ {a} : Earlier(a, b)
         IN  <<first>> \o Sorted(ds \ {first})

AuthoritativeBoth == number_dates \cup dates

(* lines 437-442: the two sets change places; the result is the set of the *)
(* weekday dates, else that of the plain dates.                            *)
Authoritative == IF number_dates # {} THEN number_dates ELSE dates

InferredYearsDeclared == {metadata.year}

(* lines 438-442: list(dates)[0].year, the year of whichever date the set  *)
(* lists first; the declared year when there is none.                      *)
InferredYears ==
    IF Authoritative # {} THEN {a.year : a \in Authoritative} ELSE {metadata.year}

(* lines 444-447 *)
Completed(year) ==
    Authoritative \cup {Date(year, y.day) : y \in {z \in yearless : z.ok}}

(* A docDate element: its namespace, its date and if it was there at the   *)
(* call.                                                                   *)
DocDate(ns, when, old) == [ns |-> ns, when |-> when, old |-> old]

(* lines 461-463 *)
Formatted(ds, year) == IF ds = <<>> THEN <<Date(year, FirstOfJanuary)>> ELSE ds

(* lines 453-458: the docDate elements of the TEI namespace are removed.   *)
WithoutTeiDocDates(div) ==
    [div EXCEPT !.docDates = SelectSeq(@, LAMBDA e : e.ns # "tei")]

(* lines 466-473: every div of type preface gets one docDate per date,     *)
(* made by etree.SubElement(div, "docDate"): an element of no namespace.   *)
WithNewDocDates(div, formatted) ==
    IF div.type # "preface" THEN div
    ELSE [div EXCEPT !.docDates =
            @ \o [k \in 1..Len(formatted) |-> DocDate("", formatted[k], FALSE)]]

(* lines 436-475: after the loop. *)
DateReturn ==
    /\ dpc = "scan" /\ dpos > Len(nodes)
    /\ \E year \in InferredYears :
         LET sorted == Sorted(Completed(year))
         IN  /\ returned' = sorted
             /\ front' = [k \in 1..Len(front) |->
                            WithNewDocDates(WithoutTeiDocDates(front[k]),
                                            Formatted(sorted, year))]
    /\ dpc' = "done"
    /\ UNCHANGED <<input, divs, nodes, mvars, uvars, fvars, skip_doctors_notes, dpos,
                   dates, number_dates, yearless, dexc>>

NextDate ==
    \/ DateBegin
    \/ DateNone
    \/ DateNote
    \/ DateOther
    \/ DateReturn

(* The texts of the notes of a document of SpecDate: a weekday with date   *)
(* and year (of the declared year, of the secondary year, of another       *)
(* year), a date with year, a weekday with date, "den" with a date in a    *)
(* text of less than 30 and of 30 to 49 characters, a text without date,   *)
(* the phrase of a medical certificate, a text of 50 characters or more,   *)
(* and a weekday with date that dateparser does not read.                  *)
SecondaryYear == 1901
OtherYear == 1950

DateReadings ==
    {DateReading("weekday_date_year", 1, DeclaredYear, TRUE, "short", FALSE),
     DateReading("weekday_date_year", 2, SecondaryYear, TRUE, "short", FALSE),
     DateReading("weekday_date_year", 2, OtherYear, TRUE, "short", FALSE),
     DateReading("date_and_year", 2, DeclaredYear, TRUE, "short", FALSE),
     DateReading("weekday_and_date", 3, NoYear, TRUE, "short", FALSE),
     DateReading("den_and_date", 3, NoYear, TRUE, "short", FALSE),
     DateReading("den_and_date", 4, NoYear, TRUE, "medium", FALSE),
     DateReading("none", 0, NoYear, FALSE, "short", FALSE),
     DateReading("none", 0, NoYear, FALSE, "short", TRUE),
     DateReading("weekday_date_year", 1, DeclaredYear, TRUE, "long", FALSE),
     DateReading("weekday_and_date", 3, NoYear, FALSE, "short", FALSE)}

DateShapes ==
    {Shape("note", ty, DateText(d), TRUE, FALSE) :
        ty \in {NoAttr, "date", "title"}, d \in DateReadings}
    \cup {Shape("note", NoAttr, NoText, TRUE, FALSE), U, Unrecognized}

(* The divs of the front matter, each with its docDate elements: a preface *)
(* with a declared date, a preface without, no preface, two prefaces, and  *)
(* a preface with the docDate an earlier call of detect_date in the same   *)
(* process left.                                                           *)
FrontDiv(type, docDates) == [type |-> type, docDates |-> docDates]
OldDate == Date(DeclaredYear, FirstOfJanuary)

Fronts ==
    {<<FrontDiv("preface", <<DocDate("tei", OldDate, TRUE)>>)>>,
     <<FrontDiv("preface", <<>>)>>,
     <<FrontDiv("titlepage", <<DocDate("tei", OldDate, TRUE)>>)>>,
     <<FrontDiv("preface", <<DocDate("tei", OldDate, TRUE)>>), FrontDiv("preface", <<>>)>>,
     <<FrontDiv("preface", <<DocDate("", OldDate, TRUE)>>)>>}

InitDate ==
    /\ \E n \in 0..MaxDateNodes : \E ss \in [1..n -> DateShapes] :
         /\ nodes = [i \in 1..n |-> MkNode(ss[i], i, 1, n)]
         /\ input = nodes
    /\ divs = <<"debateSection">>
    /\ \E sy \in {NoYear, SecondaryYear} :
         MpsIdleWith(Metadata("Forsta kammaren", DeclaredYear, sy))
    /\ IdsIdle
    /\ IntroIdle
    /\ skip_doctors_notes \in BOOLEAN
    /\ front \in Fronts
    /\ dpc = "start"
    /\ dpos = 1
    /\ dates = {}
    /\ number_dates = {}
    /\ yearless = {}
    /\ returned = <<>>
    /\ dexc = ""

SpecDate == InitDate /\ [][NextDate]_vars

(* The caller calls detect_date once more, with the same arguments, on the *)
(* document the first call returned: the docDate elements are now there at *)
(* the call.                                                               *)
AsFound(div) ==
    [div EXCEPT !.docDates = [k \in 1..Len(@) |-> [@[k] EXCEPT !.old = TRUE]]]

DateAgain ==
    /\ dpc = "done" /\ runs = 1
    /\ first_pass' = front
    /\ runs' = 2
    /\ front' = [k \in 1..Len(front) |-> AsFound(front[k])]
    /\ dpc' = "start"
    /\ UNCHANGED <<input, divs, nodes, mvars, uvars, intro_ids, remove_missing, fpc,
                   fitems, fix, fsegs, fsx, fu, fexc, skip_doctors_notes, dpos, dates,
                   number_dates, yearless, returned, dexc>>

NextDateTwice ==
    \/ NextDate
    \/ DateAgain

(* The first of two calls of detect_date, on a document with the front     *)
(* matter of a parsed file: one preface, with or without a declared date.  *)
InitDateTwice ==
    /\ \E n \in 0..MaxDateNodes : \E ss \in [1..n -> DateShapes] :
         /\ nodes = [i \in 1..n |-> MkNode(ss[i], i, 1, n)]
         /\ input = nodes
    /\ divs = <<"debateSection">>
    /\ MpsIdle
    /\ IdsIdle
    /\ IntroNotCalled
    /\ runs = 1
    /\ skip_doctors_notes = FALSE
    /\ front \in {<<FrontDiv("preface", <<DocDate("tei", OldDate, TRUE)>>)>>,
                  <<FrontDiv("preface", <<>>)>>}
    /\ dpc = "start"
    /\ dpos = 1
    /\ dates = {}
    /\ number_dates = {}
    /\ yearless = {}
    /\ returned = <<>>
    /\ dexc = ""

SpecDateTwice == InitDateTwice /\ [][NextDateTwice]_vars

(* Documents with medical certificates: the phrase in a note with and      *)
(* without the type title, a title, dated notes, an utterance and an       *)
(* element that elem_iter does not know.                                   *)
CertificateShapes ==
    {Shape("note", ty, DateText(DateReading("none", 0, NoYear, FALSE, "short", TRUE)),
           TRUE, FALSE) : ty \in {NoAttr, "title"}}
    \cup {Shape("note", "title",
                DateText(DateReading("none", 0, NoYear, FALSE, "short", FALSE)),
                TRUE, FALSE),
          Shape("note", NoAttr,
                DateText(DateReading("weekday_date_year", 1, DeclaredYear, TRUE, "short",
                                     FALSE)), TRUE, FALSE),
          Shape("note", "title",
                DateText(DateReading("weekday_date_year", 2, DeclaredYear, TRUE, "short",
                                     FALSE)), TRUE, FALSE),
          Shape("note", NoAttr,
                DateText(DateReading("den_and_date", 3, NoYear, TRUE, "short", FALSE)),
                TRUE, FALSE),
          U, Unrecognized}

InitCertificate ==
    /\ \E n \in 0..MaxCertificateNodes : \E ss \in [1..n -> CertificateShapes] :
         /\ nodes = [i \in 1..n |-> MkNode(ss[i], i, 1, n)]
         /\ input = nodes
    /\ divs = <<"debateSection">>
    /\ MpsIdle
    /\ IdsIdle
    /\ IntroIdle
    /\ skip_doctors_notes \in BOOLEAN
    /\ front = <<FrontDiv("preface", <<>>)>>
    /\ dpc = "start"
    /\ dpos = 1
    /\ dates = {}
    /\ number_dates = {}
    /\ yearless = {}
    /\ returned = <<>>
    /\ dexc = ""

SpecCertificate == InitCertificate /\ [][NextDate]_vars

----------------------------------------------------------------------------
(* The four stages on one document, one call after the other in any order  *)
(* and any number of times.  A call that raised has ended; the caller may  *)
(* go on with the document as that call left it.  The caller has one       *)
(* intro_ids and one remove_missing for all its calls.                     *)

Ended(p) == p \in {"idle", "done", "raised"}
Quiet == Ended(pc) /\ Ended(upc) /\ Ended(fpc) /\ Ended(dpc)

(* The parameters and locals of a call that has ended are gone with it:    *)
(* what stays is the document.                                             *)
MpsLocalsGone ==
    /\ mp_db' = args.mp_db
    /\ speaker_db' = args.speaker_db
    /\ mp_db_secondary' = Frame({})
    /\ pos' = 1
    /\ current_speaker' = None
    /\ prev' = 0
    /\ unknowns' = <<>>
    /\ cascade' = <<>>
    /\ exc' = ""
    /\ UNCHANGED <<metadata, minister_db, args>>

MpsGone == pc' = "idle" /\ MpsLocalsGone

IdsLocalsGone == upos' = 1 /\ ids' = {} /\ uexc' = ""

IdsGone == upc' = "idle" /\ IdsLocalsGone

IntroLocalsGone ==
    /\ fitems' = <<>>
    /\ fix' = 1
    /\ fsegs' = <<>>
    /\ fsx' = 1
    /\ fu' = 0
    /\ fexc' = ""
    /\ first_pass' = <<>>

IntroGone ==
    /\ fpc' = "idle"
    /\ runs' = 0
    /\ IntroLocalsGone
    /\ UNCHANGED <<intro_ids, remove_missing>>

DateLocalsGone ==
    /\ dpos' = 1
    /\ dates' = {}
    /\ number_dates' = {}
    /\ yearless' = {}
    /\ returned' = <<>>
    /\ dexc' = ""
    /\ UNCHANGED front

DateGone == dpc' = "idle" /\ skip_doctors_notes' = FALSE /\ DateLocalsGone

(* detect_mps(root, names_ids, pattern_db, mp_db, minister_db,             *)
(* speaker_db, metadata), lines 96-97.                                     *)
CallDetectMps ==
    /\ Quiet
    /\ pc' = "start"
    /\ MpsLocalsGone /\ IdsGone /\ IntroGone /\ DateGone
    /\ UNCHANGED <<input, divs, nodes>>

(* update_ids(root, protocol_id), line 478 *)
CallUpdateIds ==
    /\ Quiet
    /\ upc' = "start"
    /\ MpsGone /\ IdsLocalsGone /\ IntroGone /\ DateGone
    /\ UNCHANGED <<input, divs, nodes>>

(* The identifiers the document came with. *)
InputIds == {c[2] : c \in Carried(input)} \ {NoId}

(* find_introductions(root, pattern_db, intro_ids, remove_missing), line   *)
(* 222.                                                                    *)
CallFindIntroductions ==
    /\ Quiet
    /\ fpc' = "start"
    /\ runs' = 1
    /\ MpsGone /\ IdsGone /\ IntroLocalsGone /\ DateGone
    /\ UNCHANGED <<intro_ids, remove_missing>>
    /\ UNCHANGED <<input, divs, nodes>>

(* detect_date(root, metadata, skip_doctors_notes), line 341 *)
CallDetectDate ==
    /\ Quiet
    /\ dpc' = "start"
    /\ skip_doctors_notes' \in BOOLEAN
    /\ MpsGone /\ IdsGone /\ IntroGone /\ DateLocalsGone
    /\ UNCHANGED <<input, divs, nodes>>

NextStages ==
    \/ CallDetectMps
    \/ CallUpdateIds
    \/ CallFindIntroductions
    \/ CallDetectDate
    \/ Next
    \/ NextIds
    \/ Ended(pc) /\ Ended(upc) /\ Ended(dpc) /\ NextIntro
    \/ NextDate

(* Documents of the stages: a note that is cut when it is confirmed, an    *)
(* announcement, utterances without children, with a child that is         *)
(* reclassified and with one that is moved, a page break, an element that  *)
(* elem_iter does not know.                                                *)
StageShapes ==
    {NoteShape(NoAttr, Str(<<"a", ":", "a">>), "plain"),
     NoteShape("speaker", Str(<<"a">>), "plain"),
     UShape(<<>>),
     UShape(<<SegShape(Str(<<"a", ":", "a">>), "plain")>>),
     UShape(<<SegShape(Str(<<"a">>), "plain"), SegShape(Str(<<"a">>), "plain")>>),
     PbShape,
     CommentShape}

InitStages ==
    /\ \E n \in 0..MaxStageNodes : \E ss \in [1..n -> StageShapes] :
         /\ nodes = [i \in 1..n |-> MkIntroNode(ss[i], i)]
         /\ input = nodes
    /\ divs \in [{1} -> DivTypes]
    /\ MpsIdle
    /\ IdsIdle
    /\ DateIdle
    /\ intro_ids \in {{}, InputIds} \cup {{x} : x \in InputIds}
    /\ remove_missing \in BOOLEAN
    /\ fpc = "idle"
    /\ fitems = <<>>
    /\ fix = 1
    /\ fsegs = <<>>
    /\ fsx = 1
    /\ fu = 0
    /\ fexc = ""
    /\ runs = 0
    /\ first_pass = <<>>

SpecStages == InitStages /\ [][NextStages]_vars

----------------------------------------------------------------------------
(* The stages in the order update_ids, find_introductions, detect_mps,     *)
(* each called once on the document as the stage before left it.           *)

(* find_introductions(root, pattern_db, intro_ids), line 222, once         *)
(* update_ids has ended.                                                   *)
ThenFindIntroductions ==
    /\ upc \in {"done", "raised"}
    /\ fpc = "idle"
    /\ fpc' = "start"
    /\ UNCHANGED <<input, divs, nodes, mvars, uvars, dvars, intro_ids, remove_missing,
                   fitems, fix, fsegs, fsx, fu, fexc, runs, first_pass>>

(* detect_mps(root, names_ids, pattern_db, mp_db, minister_db, speaker_db, *)
(* metadata), lines 96-97, once find_introductions has ended.              *)
ThenDetectMps ==
    /\ fpc \in {"done", "raised"}
    /\ pc = "idle"
    /\ pc' = "start"
    /\ UNCHANGED <<input, args, stages, divs, nodes, metadata, mp_db, mp_db_secondary,
                   minister_db, speaker_db, pos, current_speaker, prev, unknowns,
                   cascade, exc>>

NextOrder ==
    \/ UpdateIdsBegin
    \/ UpdateIdsNone
    \/ UpdateIdsNode
    \/ UpdateIdsReturn
    \/ ThenFindIntroductions
    \/ IntroBegin
    \/ IntroNone
    \/ IntroUtterance
    \/ IntroSeg
    \/ IntroUtteranceEnd
    \/ IntroNote
    \/ IntroPb
    \/ IntroReturn
    \/ ThenDetectMps
    \/ Begin
    \/ ScanNone
    \/ ScanUtterance
    \/ ScanAnnouncement
    \/ ScanOther
    \/ ScanComment
    \/ FinishingPass

(* Documents whose nodes have their identifiers: a note and a child of an  *)
(* utterance that are confirmed introductions and are cut, an              *)
(* announcement, utterances, a page break, an element elem_iter does not   *)
(* know.                                                                   *)
OrderShapes ==
    {NoteShape(NoAttr, Str(<<"a", ":", "a">>), "confirmed"),
     NoteShape("speaker", Str(<<"a">>), "plain"),
     UShape(<<>>),
     UShape(<<SegShape(Str(<<"a", ":", "a">>), "confirmed")>>),
     UShape(<<SegShape(Str(<<"a">>), "plain")>>),
     PbShape,
     CommentShape}

InitOrder ==
    /\ \E n \in 0..MaxOrderNodes : \E ss \in [1..n -> OrderShapes] :
         /\ nodes = [i \in 1..n |-> MkIntroNode(ss[i], i)]
         /\ input = nodes
         /\ intro_ids = ConfirmedIds(ss)
    /\ divs \in [{1} -> DivTypes]
    /\ MpsIdle
    /\ upc = "start"
    /\ upos = 1
    /\ ids = {}
    /\ uexc = ""
    /\ remove_missing \in BOOLEAN
    /\ fpc = "idle"
    /\ fitems = <<>>
    /\ fix = 1
    /\ fsegs = <<>>
    /\ fsx = 1
    /\ fu = 0
    /\ fexc = ""
    /\ runs = 0
    /\ first_pass = <<>>
    /\ DateIdle

SpecOrder == InitOrder /\ [][NextOrder]_vars

----------------------------------------------------------------------------
(* Vocabulary of the properties.                                           *)

Done == pc = "done"
Ix == 1..Len(nodes)
Utterances == {i \in Ix : nodes[i].tag = "u"}
OrdinaryUtterances == {i \in Utterances : divs[nodes[i].div] # "commentSection"}
CommentUtterances == Utterances \ OrdinaryUtterances
Announcements ==
    {i \in Ix : nodes[i].tag = "note" /\ nodes[i].type = "speaker"
                /\ divs[nodes[i].div] # "commentSection"}
Identities == {"i-mp1", "i-mp2", "i-min", "i-talman1", "i-talman2"}

(* u's next (prev) attribute is v's identifier. *)
NextIs(u, v) == nodes[u].next # NoId /\ nodes[u].next = nodes[v].id
PrevIs(v, u) == nodes[v].prev # NoId /\ nodes[v].prev = nodes[u].id

(* Following next from u reaches, in at most fuel steps, an utterance      *)
(* without next.                                                           *)
RECURSIVE ChainEnds(_, _)
ChainEnds(u, fuel) ==
    IF nodes[u].next = NoId THEN TRUE
    ELSE IF fuel = 0 THEN FALSE
    ELSE \E v \in Utterances : NextIs(u, v) /\ ChainEnds(v, fuel - 1)

(* The value current_speaker got from announcement i. *)
Resolved(i) ==
    LET e == CHOOSE c \in {cascade[k] : k \in 1..Len(cascade)} : c.elem = i
    IN  e.result

----------------------------------------------------------------------------
(* C1: after detect_mps returns, every utterance carries a who attribute   *)
(* that is an identity or "unknown", never absent, empty or None.          *)
C1_WhoIsSet ==
    Done => \A u \in Utterances :
                /\ nodes[u].who \notin {NoAttr, "", None}
                /\ nodes[u].who \in Identities \cup {"unknown"}

(* A returned document with an utterance stamped with an identity and a    *)
(* comment-section utterance that came with an earlier who.                *)
C1_Witness ==
    /\ Done
    /\ \E u \in OrdinaryUtterances : nodes[u].who \in Identities
    /\ \E u \in CommentUtterances : input[u].who = "old"

(* C2: after detect_mps returns, following next from any ordinary-section  *)
(* utterance ends at an utterance without next, and prev is the exact      *)
(* inverse of next, also when the input carried prev/next already.         *)
C2_ChainConsistent ==
    Done =>
        /\ \A u \in OrdinaryUtterances : ChainEnds(u, Len(nodes))
        /\ \A u \in Utterances : \A v \in Utterances : NextIs(u, v) <=> PrevIs(v, u)
        /\ \A u \in Utterances :
              /\ nodes[u].next # NoId => \E v \in Utterances : NextIs(u, v)
              /\ nodes[u].prev # NoId => \E v \in Utterances : PrevIs(u, v)

(* A returned document with two linked utterances whose input pointers     *)
(* were different ones.                                                    *)
C2_Witness ==
    /\ Done
    /\ \E u \in OrdinaryUtterances : \E v \in OrdinaryUtterances :
          /\ NextIs(u, v)
          /\ input[u].next # NoId /\ input[u].next # nodes[u].next
          /\ input[v].prev # NoId /\ input[v].prev # nodes[v].prev

(* C3: after detect_mps returns, every comment-section utterance has who = *)
(* "unknown", has neither prev nor next, and no utterance outside the      *)
(* comment sections points to it.                                          *)
C3_CommentSection ==
    Done => \A u \in CommentUtterances :
                /\ nodes[u].who = "unknown"
                /\ nodes[u].prev = NoId
                /\ nodes[u].next = NoId
                /\ \A v \in OrdinaryUtterances : ~NextIs(v, u) /\ ~PrevIs(v, u)

(* A comment-section utterance that came with who, prev and next, between  *)
(* two ordinary utterances.                                                *)
C3_Witness ==
    /\ Done
    /\ \E u \in CommentUtterances :
          /\ input[u].who = "old" /\ input[u].prev # NoId /\ input[u].next # NoId
          /\ \E v \in OrdinaryUtterances : v < u
          /\ \E v \in OrdinaryUtterances : v > u

(* C4: after detect_mps returns, no prev or next points to an utterance of *)
(* another section.                                                        *)
C4_ChainWithinSection ==
    Done => \A u \in Utterances : \A v \in Utterances :
                NextIs(u, v) \/ PrevIs(u, v) => nodes[u].div = nodes[v].div

(* The last announcement before u in u's own section, 0 when none. *)
LastAnnouncement(u) ==
    LET before == {i \in Announcements : i < u /\ nodes[i].div = nodes[u].div}
    IN  IF before = {} THEN 0 ELSE CHOOSE i \in before : \A j \in before : j <= i

(* C5: an ordinary-section utterance is stamped from the most recent       *)
(* announcement before it in its own section, "unknown" when its section   *)
(* has none before it.                                                     *)
C5_SpeakerEndsWithSection ==
    Done => \A u \in OrdinaryUtterances :
                nodes[u].who = IF LastAnnouncement(u) = 0 THEN "unknown"
                               ELSE Stamp(Resolved(LastAnnouncement(u)))

CommentDivs == {c \in 1..Len(divs) : divs[c] = "commentSection"}

(* u comes after div c, with no ordinary utterance and no announcement     *)
(* between the two.                                                        *)
FirstAfter(c, u) ==
    /\ nodes[u].div > c
    /\ \A i \in Ix : i < u /\ nodes[i].div > c =>
          i \notin OrdinaryUtterances /\ i \notin Announcements

(* C6: for every comment section, the first ordinary utterance after it    *)
(* with no announcement in between is stamped "unknown" and has no prev.   *)
C6_ResetAtCommentSection ==
    Done => \A c \in CommentDivs : \A u \in OrdinaryUtterances :
                FirstAfter(c, u) => nodes[u].who = "unknown" /\ nodes[u].prev = NoId

(* C9: the scan is not aborted at a node for which elem_iter yields the    *)
(* marker None.                                                            *)
C9_NoneMarkerTolerated ==
    pc = "raised" /\ pos \in Ix => elem_iter(nodes)[pos] # NoneMarker

----------------------------------------------------------------------------
(* The resolver calls of the announcements, as the scan made them.         *)

Entries == {cascade[k] : k \in 1..Len(cascade)}
MemberEntries == {e \in Entries : e.calls # <<>> /\ e.calls[1].strategy = "mp_db"}
NameOf(e) == nodes[e.elem].text.name

(* C7: the member registry of the document's chamber is asked first, the   *)
(* other chamber's only when that gave no match, and a name the first does *)
(* not resolve and the second does yields the second's identity.           *)
C7_ChamberFallback ==
    \A e \in Entries :
        /\ nodes[e.elem].text.other = NoOther /\ NameOf(e) # NoName
           => e \in MemberEntries
        /\ \A j \in 1..Len(e.calls) :
              e.calls[j].strategy = "mp_db_secondary" =>
                  /\ j = 2
                  /\ e.calls[1] = Call("mp_db", None)
        /\ e \in MemberEntries
           /\ e.calls[1].result = None
           /\ Lookup(NameOf(e), mp_db_secondary.rows) # None
           => e.result = Lookup(NameOf(e), mp_db_secondary.rows)

(* An announcement the primary registry did not resolve and the secondary  *)
(* did, stamped on the utterance after it.                                 *)
C7_Witness ==
    /\ Done
    /\ \E e \in MemberEntries :
          /\ Len(e.calls) = 2
          /\ e.calls[1].result = None
          /\ e.result \in Identities
          /\ \E u \in OrdinaryUtterances : u > e.elem /\ nodes[u].who = e.result

(* The observations the entries 1..k of cascade ask for. *)
RECURSIVE Unresolved(_)
Unresolved(k) ==
    IF k = 0 THEN <<>>
    ELSE IF cascade[k].result = None
         THEN Append(Unresolved(k - 1),
                     [protocol |-> protocol_id, id |-> nodes[cascade[k].elem].id])
         ELSE Unresolved(k - 1)

RegistryOf(strategy) ==
    CASE strategy = "mp_db" -> mp_db
      [] strategy = "mp_db_secondary" -> mp_db_secondary
      [] strategy = "minister_db" -> minister_db
      [] strategy = "speaker_db" -> speaker_db

(* C10: a resolution step on a registry it cannot read counts as no match: *)
(* it does not raise out of the scan, and when the announcement has a name *)
(* the cascade goes on to the member registry.                             *)
C10_FailedStepIsNoMatch ==
    \A e \in Entries : \A j \in 1..Len(e.calls) :
        ~RegistryOf(e.calls[j].strategy).ok =>
            /\ e.calls[j].result = None
            /\ pc # "raised"
            /\ e.calls[j].strategy \in {"minister_db", "speaker_db"}
               /\ NameOf(e) # NoName
               => j < Len(e.calls)

----------------------------------------------------------------------------
(* Runs of utterances.                                                     *)

(* u and v are utterances of one ordinary section with no utterance        *)
(* between them.                                                           *)
Consecutive(u, v) ==
    /\ u \in OrdinaryUtterances /\ v \in OrdinaryUtterances
    /\ u < v
    /\ nodes[u].div = nodes[v].div
    /\ \A w \in Utterances : ~(u < w /\ w < v)

AnnouncementBetween(u, v) == \E i \in Announcements : u < i /\ i < v
Linked(u, v) == NextIs(u, v) /\ PrevIs(v, u)

(* C17: after detect_mps returns, two consecutive utterances of one        *)
(* ordinary section are linked exactly when no speaker announcement lies   *)
(* between them; page breaks and notes of other subtypes between them      *)
(* leave them linked and stamped with the same speaker.                    *)
C17_RunsOfUtterances ==
    Done => \A u \in Utterances : \A v \in Utterances :
                Consecutive(u, v) =>
                    /\ Linked(u, v) <=> ~AnnouncementBetween(u, v)
                    /\ ~AnnouncementBetween(u, v) => nodes[v].who = nodes[u].who
                    /\ AnnouncementBetween(u, v) =>
                          nodes[u].next = NoId /\ nodes[v].prev = NoId

(* An announced speaker's two utterances with a note of another subtype or *)
(* a page break between them, linked and stamped alike.                    *)
C17_Witness ==
    /\ Done
    /\ \E u \in Utterances : \E v \in Utterances :
          /\ Consecutive(u, v)
          /\ \E i \in Ix : u < i /\ i < v /\ nodes[i].tag \in {"note", "pb"}
          /\ Linked(u, v)
          /\ nodes[u].who \in Identities /\ nodes[v].who = nodes[u].who

----------------------------------------------------------------------------
(* The cascade of one announcement.                                        *)

OtherOf(e) == nodes[e.elem].text.other

(* C18: an announcement with a parsed name whose 'other' phrase names      *)
(* neither a minister nor a talman, a phrase that is present included, is  *)
(* resolved against the member registry.                                   *)
C18_NamedNonOfficeGoesToMembers ==
    \A e \in Entries :
        NameOf(e) # NoName /\ ~IsMinister(OtherOf(e)) /\ ~IsTalman(OtherOf(e))
            => e \in MemberEntries

SpeakerEntries == {e \in Entries : e.calls # <<>> /\ e.calls[1].strategy = "speaker_db"}

(* The records of the presiding-officer registry, as passed, of another    *)
(* chamber than the document's.                                            *)
OtherChamberSpeakers ==
    IF metadata.chamber = NoChamber \/ ~args.speaker_db.ok THEN {}
    ELSE SecondaryRows(args.speaker_db, ChamberCode(metadata.chamber))

(* C19 as stated: a presiding-officer announcement that the records of the *)
(* document's chamber do not resolve is resolved against the records of    *)
(* the other chamber, when there are any.                                  *)
C19_SpeakerFallback ==
    \A e \in SpeakerEntries :
        e.calls[1].result = None /\ OtherChamberSpeakers # {} => Len(e.calls) = 2

(* C19: the presiding-officer registry is filtered to the records of the   *)
(* document's chamber, and a presiding-officer announcement is resolved    *)
(* against those alone, in one call whose outcome is final.                *)
C19_SpeakerChamberOnly ==
    \A e \in SpeakerEntries :
        /\ Len(e.calls) = 1
        /\ e.result = e.calls[1].result
        /\ metadata.chamber # NoChamber =>
              /\ speaker_db.rows = {r \in args.speaker_db.rows :
                                       r.chamber = ChamberCode(metadata.chamber)}
              /\ e.result \in {None} \cup {r.id : r \in speaker_db.rows}

(* A returned scan in which the chamber's records resolved a presiding     *)
(* officer although the registry held another chamber's officer as well.   *)
C19_Witness ==
    /\ Done
    /\ OtherChamberSpeakers # {}
    /\ \E e \in SpeakerEntries :
          /\ e.result \in Identities
          /\ \E u \in OrdinaryUtterances : u > e.elem /\ nodes[u].who = e.result

----------------------------------------------------------------------------
(* Identifier assignment.                                                  *)

AllRecognized == \A i \in 1..Len(input) : input[i].tag \in {"u", "note", "pb"}

(* C14: update_ids returns; after it every utterance, child of an          *)
(* utterance, note and page break has an identifier, the one it came with  *)
(* when it came with one, and the set returned is the set of those         *)
(* identifiers.                                                            *)
C14_UpdateIds ==
    AllRecognized =>
        /\ upc # "raised"
        /\ upc = "done" =>
              /\ \A c \in Carried(nodes) : c[2] # NoId
              /\ \A c \in Carried(input) : c[2] # NoId => c \in Carried(nodes)
              /\ ids = {c[2] : c \in Carried(nodes)}

(* C15: update_ids returns, and no identifier it has assigned comes from   *)
(* an unseeded, random draw: each is the one get_formatted_uuid makes of   *)
(* the caller's seed.                                                      *)
C15_SeededIdentifiers ==
    AllRecognized =>
        /\ upc # "raised"
        /\ \A c \in Carried(nodes) \ Carried(input) :
              c[2] \in get_formatted_uuid(protocol_id)

----------------------------------------------------------------------------
(* Introduction segmentation.                                              *)

IntroDone == fpc = "done"
TopKeys(doc) == {doc[i].key : i \in 1..Len(doc)}

(* C11: a second call of find_introductions, with the same intro_ids and   *)
(* remove_missing, on the document the first call returned, returns as     *)
(* well and leaves every node, text, type and child as the first call left *)
(* it.                                                                     *)
C11_SecondRunChangesNothing ==
    runs = 2 =>
        /\ fpc # "raised"
        /\ IntroDone => nodes = first_pass

(* A second call has returned on a document in which the first call had    *)
(* made a child of an utterance a note, cut its text and moved the child   *)
(* after it into the new utterance.                                        *)
C11_Witness ==
    /\ IntroDone /\ runs = 2
    /\ \E i \in 1..Len(nodes) :
          /\ nodes[i].tag = "note" /\ nodes[i].key \notin TopKeys(input)
          /\ i < Len(nodes)
          /\ nodes[i + 1].key \notin Keys(input)
          /\ Len(nodes[i + 1].segs) = 2
          /\ nodes[i + 1].segs[1].key \notin Keys(input)
          /\ nodes[i + 1].segs[2].key \in Keys(input)

(* The elements of doc that can hold text: the nodes (top) and the         *)
(* children of the utterances, each with its key, its text and the         *)
(* position of the node it is or is in.                                    *)
Holders(doc) ==
    {[key |-> doc[i].key, chars |-> doc[i].chars, top |-> TRUE, at |-> i]
        : i \in 1..Len(doc)}
    \cup UNION {{[key |-> doc[i].segs[j].key, chars |-> doc[i].segs[j].chars,
                  top |-> FALSE, at |-> i] : j \in 1..Len(doc[i].segs)}
                   : i \in 1..Len(doc)}

Holder(doc, k) == CHOOSE h \in Holders(doc) : h.key = k

(* Node i is a note followed at once by an utterance that the calls have   *)
(* created and whose first child they have created too.                    *)
SplitAt(i) ==
    /\ nodes[i].tag = "note"
    /\ i < Len(nodes)
    /\ nodes[i + 1].tag = "u"
    /\ nodes[i + 1].key \notin Keys(input)
    /\ nodes[i + 1].segs # <<>>
    /\ nodes[i + 1].segs[1].key \notin Keys(input)

(* C12: the text of an element that has been split is the text left on the *)
(* note followed by the text of the first child of the new utterance after *)
(* it; the text of every other element is the text it came with.           *)
C12_TextConserved ==
    \A h \in Holders(input) :
        LET now == Holder(nodes, h.key)
        IN  IF now.top /\ SplitAt(now.at)
            THEN now.chars \o nodes[now.at + 1].segs[1].chars = h.chars
            ELSE now.chars = h.chars

(* A returned call that has cut a text, with text on both sides of the     *)
(* cut.                                                                    *)
C12_Witness ==
    /\ IntroDone
    /\ \E h \in Holders(input) :
          LET now == Holder(nodes, h.key)
          IN  /\ now.top /\ SplitAt(now.at)
              /\ Len(now.chars) < Len(h.chars)
              /\ Len(nodes[now.at + 1].segs[1].chars) > 0

(* C20: an element whose text has been cut is a note whose text ends with  *)
(* a colon, and the text cut off is the first child of a new utterance     *)
(* right after the note.                                                   *)
C20_BoundaryIsColon ==
    \A h \in Holders(input) :
        LET now == Holder(nodes, h.key)
        IN  now.chars # h.chars =>
                /\ now.top /\ SplitAt(now.at)
                /\ Last(now.chars) = ":"

----------------------------------------------------------------------------
(* The declared session dates after detect_date.                           *)

RECURSIVE DocDatesFrom(_, _)
DocDatesFrom(fr, k) ==
    IF k > Len(fr) THEN <<>> ELSE fr[k].docDates \o DocDatesFrom(fr, k + 1)

(* Every docDate element under the front matter, in document order. *)
DocDates == DocDatesFrom(front, 1)

DateDone == dpc = "done"

(* C13: after detect_date returns, the docDate elements name exactly the   *)
(* returned dates, one each in ascending order, or the first of January of *)
(* the year alone when no date was found; none that was declared before    *)
(* the call remains and at least one is declared.                          *)
C13_DeclaredDatesAreResolved ==
    DateDone =>
        /\ DocDates # <<>>
        /\ \A k \in 1..Len(DocDates) : ~DocDates[k].old
        /\ [k \in 1..Len(DocDates) |-> DocDates[k].when]
              = Formatted(returned, metadata.year)

----------------------------------------------------------------------------
(* Identifiers across the stages.                                          *)

Identifiers(doc) == {c \in Carried(doc) : c[2] # NoId}

(* A step keeps every identifier on the element that carries it. *)
IdentifiersKept == \A c \in Identifiers(nodes) : c \in Carried(nodes')

(* No two elements carry the same identifier. *)
IdentifiersDistinct(doc) ==
    \A c \in Identifiers(doc) : \A d \in Identifiers(doc) : c[2] = d[2] => c[1] = d[1]

(* C16: through any sequence of calls of find_introductions, detect_mps,   *)
(* detect_date and update_ids, an element that carries an identifier keeps *)
(* it unchanged, also when a child of an utterance becomes a note or is    *)
(* moved into a new utterance, and no two elements carry the same one.     *)
C16_IdentifiersImmutable ==
    [][IdentifiersKept /\ IdentifiersDistinct(nodes')]_vars

(* A stage has ended that was called after find_introductions, on a        *)
(* document with a note with an identifier that came as the child of an    *)
(* utterance and a new utterance that holds a child with an identifier     *)
(* moved out of another.                                                   *)
C16_Witness ==
    /\ fpc = "idle"
    /\ pc \in {"done", "raised"} \/ upc \in {"done", "raised"} \/ dpc \in {"done", "raised"}
    /\ \E i \in 1..Len(nodes) :
          /\ nodes[i].tag = "note" /\ nodes[i].id # NoId
          /\ nodes[i].key \notin TopKeys(input)
    /\ \E i \in 1..Len(nodes) :
          /\ nodes[i].key \notin Keys(input)
          /\ \E j \in 1..Len(nodes[i].segs) :
                nodes[i].segs[j].key \in Keys(input) /\ nodes[i].segs[j].id # NoId

----------------------------------------------------------------------------
(* What detect_date is to find, read from the document as it was passed.   *)

(* The years the metadata declares. *)
DeclaredYears ==
    {metadata.year} \cup
    (IF metadata.secondary_year # NoYear THEN {metadata.secondary_year} ELSE {})

(* The notes with a text of less than 50 characters that the template      *)
(* named matches first.                                                    *)
ShortNotes ==
    {i \in 1..Len(input) : /\ input[i].tag = "note"
                           /\ input[i].text.str
                           /\ input[i].text.date.len # "long"}
NotesOfKind(kind) == {i \in ShortNotes : input[i].text.date.kind = kind}

(* The phrase of a medical certificate stands in a sibling before node i,  *)
(* with no title between the two.                                          *)
CertificateBefore(i) ==
    \E j \in 1..(i - 1) :
        /\ input[j].div = input[i].div
        /\ input[j].text.str /\ input[j].text.date.sick
        /\ \A k \in (j + 1)..(i - 1) : input[k].type # "title"

Excluded(i) == skip_doctors_notes /\ CertificateBefore(i)

(* The dates with a year that the notes of a kind give. *)
Found(kind) ==
    {Date(input[i].text.date.year, input[i].text.date.day) :
        i \in {j \in NotesOfKind(kind) : /\ input[j].text.date.ok
                                         /\ input[j].text.date.year \in DeclaredYears
                                         /\ ~Excluded(j)}}

WeekdayYearDates == Found("weekday_date_year")
PlainDates == Found("date_and_year")
AuthoritativeDates == IF WeekdayYearDates # {} THEN WeekdayYearDates ELSE PlainDates

(* The days of the matches without a year that dateparser reads. *)
YearlessNotes ==
    NotesOfKind("weekday_and_date")
    \cup {i \in NotesOfKind("den_and_date") : input[i].text.date.len = "short"}
YearlessDays ==
    {input[i].text.date.day :
        i \in {j \in YearlessNotes : input[j].text.date.ok /\ ~Excluded(j)}}

ReturnedDates == {returned[k] : k \in 1..Len(returned)}

(* C21: when the notes give dates with weekday and year, the result has    *)
(* those and none of the plain dates with a year; the plain dates are in   *)
(* the result only when no note gives a date with weekday and year.        *)
C21_WeekdayDatesFirst ==
    DateDone =>
        IF WeekdayYearDates # {}
        THEN /\ WeekdayYearDates \subseteq ReturnedDates
             /\ (PlainDates \ WeekdayYearDates) \cap ReturnedDates = {}
        ELSE PlainDates \subseteq ReturnedDates

(* detect_date has returned on a document with a date of either kind. *)
C21_Witness ==
    DateDone /\ WeekdayYearDates # {} /\ PlainDates \ WeekdayYearDates # {}

(* C22: the matches without a year are completed with the year of an entry *)
(* of the authoritative set (the one the set lists first), or with the      *)
(* declared year when that set is empty, and the result is the             *)
(* authoritative set with every completed date.                            *)
C22_YearlessCompleted ==
    DateDone =>
        \E y \in (IF AuthoritativeDates # {}
                  THEN {a.year : a \in AuthoritativeDates} ELSE {metadata.year}) :
            ReturnedDates = AuthoritativeDates \cup {Date(y, d) : d \in YearlessDays}

(* The lone note "den 3 januari" in a document of the year 1900 has given  *)
(* the third day of 1900.                                                  *)
C22_Witness ==
    /\ DateDone
    /\ Len(input) = 1
    /\ NotesOfKind("den_and_date") = {1}
    /\ returned = <<Date(DeclaredYear, 3)>>

(* The short notes that match none of the four templates, and those the    *)
(* scan has passed.                                                        *)
NonDateNotes == NotesOfKind("none")
Scanned(i) == dpc \in {"scan", "done", "raised"} /\ dpos > i

(* C23 as stated: a short note that matches no template has the subtype it *)
(* had before the call.                                                    *)
C23_NonDateKeepsSubtype ==
    \A i \in NonDateNotes : nodes[i].type = input[i].type

(* C23 amended: a short note that matches no template keeps its subtype,   *)
(* but for the subtype "date", which the scan removes; the marking REMOVE  *)
(* is on no note between two iterations.                                   *)
C23_NonDateLosesOnlyDate ==
    \A i \in NonDateNotes :
        /\ nodes[i].type # "REMOVE"
        /\ nodes[i].type =
              IF Scanned(i) /\ input[i].type = "date" THEN NoAttr ELSE input[i].type

(* A note of subtype "date" that matches no template has lost the subtype. *)
C23_Witness ==
    /\ DateDone
    /\ \E i \in NonDateNotes : input[i].type = "date" /\ nodes[i].type = NoAttr

(* The docDate elements the call has made. *)
NewDocDates == {DocDates[k] : k \in {j \in 1..Len(DocDates) : ~DocDates[j].old}}

(* C30: every date returned and every docDate written is of the declared   *)
(* year or of the secondary year.                                          *)
C30_YearsAreDeclared ==
    DateDone =>
        /\ \A d \in ReturnedDates : d.year \in DeclaredYears
        /\ \A e \in NewDocDates : e.when.year \in DeclaredYears

(* detect_date has returned on a document with a dated note of another     *)
(* year and a match without a year, and has written the dates.             *)
C30_Witness ==
    /\ DateDone
    /\ \E i \in NotesOfKind("weekday_date_year") :
          input[i].text.date.year \notin DeclaredYears
    /\ YearlessDays # {}
    /\ returned # <<>>
    /\ NewDocDates # {}

----------------------------------------------------------------------------
(* Medical certificates.                                                   *)

(* Note i gives the date d: a match with a year of a declared year, or a   *)
(* match without a year of the same day.                                   *)
Gives(i, d) ==
    LET r == input[i].text.date
    IN  /\ r.ok
        /\ \/ /\ i \in NotesOfKind("weekday_date_year") \cup NotesOfKind("date_and_year")
              /\ r.year \in DeclaredYears
              /\ d = Date(r.year, r.day)
           \/ i \in YearlessNotes /\ d.day = r.day

DatedNotes == {i \in ShortNotes : \E y \in DeclaredYears : Gives(i, Date(y, input[i].text.date.day))}

----------------------------------------------------------------------------
(* detect_date twice.                                                      *)

Whens(es) == [k \in 1..Len(es) |-> es[k].when]

(* C28: the second of two calls of detect_date on the same tree leaves the *)
(* docDate entries the first call left: it finds them and replaces them.   *)
C28_SecondCallReplaces ==
    runs = 2 /\ DateDone => Whens(DocDates) = Whens(DocDatesFrom(first_pass, 1))

----------------------------------------------------------------------------
(* Announcements of detect_mps whose text is absent.                       *)

TextlessAnnouncements ==
    {i \in Ix : /\ nodes[i].tag = "note"
                /\ nodes[i].type = "speaker"
                /\ divs[nodes[i].div] # "commentSection"
                /\ ~nodes[i].text.str}

(* C26: in detect_mps, a speaker note without text does not abort the      *)
(* scan: the scan is never left at such a note with an exception, so the   *)
(* nodes after it are processed.                                           *)
C26_AbsentTextTolerated ==
    \A i \in TextlessAnnouncements : ~(pc = "raised" /\ pos = i)

----------------------------------------------------------------------------
(* detect_mps called twice.                                                *)

SpeakerAndLinks(doc) ==
    [i \in {k \in 1..Len(doc) : doc[k].tag = "u"} |->
        <<doc[i].who, doc[i].prev, doc[i].next>>]

Placeholders(doc) ==
    {i \in 1..Len(doc) : doc[i].tag = "u" /\ (doc[i].prev = Delete \/ doc[i].next = Delete)}

(* C29: a second call of detect_mps with the same registries on the        *)
(* document the first call returned leaves who, prev and next of every     *)
(* utterance as they were, and a document returned by either call has no   *)
(* utterance whose prev or next is the placeholder "delete".               *)
C29_SecondCallChangesNothing ==
    pc = "done" =>
        /\ Placeholders(nodes) = {}
        /\ runs = 2 => SpeakerAndLinks(nodes) = SpeakerAndLinks(first_pass)

(* A second call has returned a document with an utterance stamped with an *)
(* identity and linked to the next one; the input carried the attributes   *)
(* of some earlier run.                                                    *)
C29_Witness ==
    /\ pc = "done"
    /\ runs = 2
    /\ \E u \in 1..Len(nodes) : \E v \in 1..Len(nodes) :
          /\ nodes[u].tag = "u" /\ nodes[v].tag = "u"
          /\ nodes[u].who = "i-mp1"
          /\ nodes[u].next = nodes[v].id /\ nodes[v].prev = nodes[u].id
          /\ input[u].who = "old"

----------------------------------------------------------------------------
(* The stages in the order update_ids, find_introductions, detect_mps.     *)

UtteranceIds == {nodes[i].id : i \in {k \in Ix : nodes[k].tag = "u"}} \ {NoId}

(* C25: after update_ids, then find_introductions, then detect_mps, where  *)
(* find_introductions returned the segmented document, detect_mps returns  *)
(* too, and every prev and next it wrote is the identifier of an utterance *)
(* of the document.                                                        *)
C25_OrderSuffices ==
    fpc = "done" /\ pc \in {"done", "raised"} =>
        /\ pc = "done"
        /\ \A i \in Ix : nodes[i].tag = "u" =>
              /\ nodes[i].prev # NoId => nodes[i].prev \in UtteranceIds
              /\ nodes[i].next # NoId => nodes[i].next \in UtteranceIds

----------------------------------------------------------------------------
(* The notes and the children of the utterances of a document, in document *)
(* order, each with its key and its text.                                  *)

Piece(key, chars) == [key |-> key, chars |-> chars]

PiecesOf(n) ==
    IF n.tag = "note" THEN <<Piece(n.key, n.chars)>>
    ELSE IF n.tag = "u"
    THEN [j \in 1..Len(n.segs) |-> Piece(n.segs[j].key, n.segs[j].chars)]
    ELSE <<>>

RECURSIVE PiecesFrom(_, _)
PiecesFrom(doc, i) ==
    IF i > Len(doc) THEN <<>> ELSE PiecesOf(doc[i]) \o PiecesFrom(doc, i + 1)

Pieces(doc) == PiecesFrom(doc, 1)

RECURSIVE Joined(_)
Joined(ps) == IF ps = <<>> THEN <<>> ELSE Head(ps).chars \o Joined(Tail(ps))

PieceKeys(ps) == [k \in 1..Len(ps) |-> ps[k].key]
WithText(ps) == SelectSeq(ps, LAMBDA q : q.chars # <<>>)
CameWith(ps) == SelectSeq(ps, LAMBDA q : q.key \in Keys(input))

(* C27: find_introductions destroys nothing and keeps the reading order:   *)
(* every note and every child of an utterance the document came with is a  *)
(* note or a child of an utterance of the returned document, those with    *)
(* text are in the order they came in, and the texts read in document      *)
(* order give the text they gave before.                                   *)
C27_NothingDestroyed ==
    IntroDone =>
        /\ \A k \in 1..Len(Pieces(input)) :
              \E l \in 1..Len(Pieces(nodes)) : Pieces(nodes)[l].key = Pieces(input)[k].key
        /\ PieceKeys(CameWith(WithText(Pieces(nodes)))) = PieceKeys(WithText(Pieces(input)))
        /\ Joined(Pieces(nodes)) = Joined(Pieces(input))

(* A returned call has made a note of the second child of an utterance,    *)
(* cut its text, and left the first child in the utterance.                *)
C27_Witness ==
    /\ IntroDone
    /\ \E i \in 1..Len(nodes) :
          /\ i + 2 <= Len(nodes)
          /\ nodes[i].tag = "u" /\ Len(nodes[i].segs) = 1
          /\ nodes[i + 1].tag = "note" /\ nodes[i + 1].key \in Keys(input)
          /\ nodes[i + 1].key \notin {input[k].key : k \in 1..Len(input)}
          /\ nodes[i + 2].tag = "u" /\ nodes[i + 2].key \notin Keys(input)
          /\ Len(nodes[i + 2].segs) = 1

============================================================================
